---- MODULE Spec2Model ----
(***************************************************************************)
(* Credential migration gateway of firebase-to-supabase: the two edge      *)
(* functions exchange-firebase-session (two revisions) and                 *)
(* migrate-firebase-password, run against the target user store and the    *)
(* two verification services.  One request is served at a time; every      *)
(* await of a handler is one step, and the outcome of the awaited call     *)
(* (answer, error result, thrown exception) is chosen by the environment.  *)
(* A second specification, SpecConcurrent, serves several requests for one *)
(* user at once: the handler of a request is suspended at an await and     *)
(* another one runs.  Further specifications cover what surrounds the      *)
(* gateway: SpecLookup (user lookup over large stores), SpecTokenService   *)
(* (the claims-verification service), SpecReport (the migration state      *)
(* reports), SpecClient (the React Native helpers and the example App),    *)
(* SpecImport (the incremental import script) and SpecLive (Spec with      *)
(* every awaited call settling).                                           *)
(***************************************************************************)
EXTENDS Integers, Sequences, FiniteSets, Bags, TLC

VARIABLES users, issued, artifacts, req, prev, config, parked, client

vars == <<users, issued, artifacts, req, prev, config, parked, client>>

\* Cap on the number of sessions the user store mints in one behaviour.
MaxSessions == 2

None == "none"

\* The app on a device before it has run: no Supabase session, nothing in
\* AsyncStorage, no Firebase user, the example App showing its loading screen.
NoClient ==
  [session |-> None, migration_complete |-> None, session_exchanged |-> None,
   currentUser |-> FALSE, oauthOpened |-> FALSE, authMode |-> "checking"]
\* The empty string: an absent email, hash or token (falsy in the handlers).
Empty == <<>>

----------------------------------------------------------------------------
(* Strings are sequences of characters, so that toLowerCase is computed.   *)

LowerChar(c) ==
  CASE c = "A" -> "a"
    [] c = "B" -> "b"
    [] c = "C" -> "c"
    [] c = "Z" -> "z"
    [] OTHER -> c

ToLowerCase(s) == [i \in DOMAIN s |-> LowerChar(s[i])]

EmailA == <<"A", "@", "x">>
EmailALower == <<"a", "@", "x">>
EmailB == <<"b", "@", "x">>
EmailC == <<"c", "@", "x">>
EmailZ == <<"z", "@", "x">>

Passwords == {"p1", "p2"}

\* The source provider's scrypt hash of a password under a salt.
FirebaseScrypt(password, salt) == <<"scrypt", password, salt>>

----------------------------------------------------------------------------
(* The target user store.                                                  *)

NoMeta == [uid |-> None, passwordHash |-> Empty, passwordSalt |-> None,
           provider |-> None, last_firebase_session_exchange |-> None]

\* A password user imported from the source provider, not yet migrated.
UserA(pw) ==
  [id |-> "id1", email |-> EmailA, password |-> pw,
   user_metadata |-> [uid |-> "U1",
                      passwordHash |-> FirebaseScrypt("p1", "s1"),
                      passwordSalt |-> "s1",
                      provider |-> "password",
                      last_firebase_session_exchange |-> None]]

\* An OAuth-only user imported from the source provider.
UserB ==
  [id |-> "id2", email |-> EmailB, password |-> None,
   user_metadata |-> [uid |-> "U2", passwordHash |-> Empty, passwordSalt |-> None,
                      provider |-> "google.com",
                      last_firebase_session_exchange |-> None]]

\* A user created in the target store itself: native password, no snapshot.
UserC ==
  [id |-> "id3", email |-> EmailC, password |-> "p1", user_metadata |-> NoMeta]

InitialStores == { <<UserA(pw), UserB, UserC>> : pw \in {None, "p2"} }

Min(a, b) == IF a < b THEN a ELSE b

\* auth.admin.listUsers({page, perPage}): one page of the store, in store order.
ListUsers(us, page, perPage) ==
  SubSeq(us, Min((page - 1) * perPage + 1, Len(us) + 1), Min(page * perPage, Len(us)))

\* auth.admin.listUsers() without arguments: the store's first page of 50.
ListUsersDefault(us) == ListUsers(us, 1, 50)

\* Slip: the last element passing the test is taken.
FindLast(matching) ==
  IF matching = {} THEN 0 ELSE CHOOSE k \in matching : \A j \in matching : k >= j

\* Array.prototype.find over the indices whose element passes the test: the
\* first of them, 0 (undefined) if there is none.
Find(matching) ==
  IF matching = {} THEN 0 ELSE CHOOSE k \in matching : \A j \in matching : k <= j

\* The store's own lookup of the account a native login or a redemption is for.
StoreUserByEmail(us, email) ==
  Find({k \in DOMAIN us : ToLowerCase(us[k].email) = ToLowerCase(email)})

\* auth.signInWithPassword: the store accepts iff the account has that native password.
NativeLoginAccepts(us, email, password) ==
  LET i == StoreUserByEmail(us, email)
  IN i # 0 /\ us[i].password # None /\ us[i].password = password

NoSession == [user_id |-> None, access_token |-> Empty, refresh_token |-> Empty]

\* A freshly minted session: the n-th pair of tokens the store hands out.
MintSession(u, n) ==
  [user_id |-> u.id, access_token |-> <<"at", n>>, refresh_token |-> <<"rt", n>>]

----------------------------------------------------------------------------
(* Requests and responses.                                                 *)

NoUser == [id |-> None, email |-> Empty, password |-> None, user_metadata |-> NoMeta]

NoClaims == [uid |-> None, email |-> Empty]

NoToken == [state |-> "missing", uid |-> None, email |-> Empty]

NoLink == [email |-> Empty, shape |-> None, session |-> NoSession]

NoResp == [status |-> 0, error |-> None, hint |-> None, session |-> NoSession,
           migrated |-> None, access_token |-> Empty, refresh_token |-> Empty,
           user_id |-> None]

\* A request: its input, its position, the locals of its handler, the calls it
\* has awaited so far (name and outcome), the store as it was when the request
\* arrived, what it wrote to the function log, and its response.
Idle == [kind |-> None, pc |-> "idle", token |-> NoToken, email |-> Empty,
         password |-> None, fbUser |-> NoClaims, user |-> NoUser, link |-> NoLink,
         calls |-> <<>>, before |-> <<>>, log |-> {}, resp |-> NoResp]

\* What is remembered of the request served just before the current one, as
\* long as the current one repeats it (same endpoint, same body).
SameInput(r1, r2) ==
  /\ r1.kind = r2.kind /\ r1.token = r2.token
  /\ r1.email = r2.email /\ r1.password = r2.password

Digest(r) ==
  [r EXCEPT !.before = <<>>, !.user = NoUser, !.fbUser = NoClaims, !.link = NoLink,
            !.calls = <<>>, !.log = {}]

\* The response ends the request; the one-time link dies with the handler.
Respond(r, resp) == [r EXCEPT !.pc = "done", !.resp = resp, !.link = NoLink]

Reply(r, status, error) ==
  Respond(r, [NoResp EXCEPT !.status = status, !.error = error])

\* The call just awaited, with the outcome the environment gave it.
Called(r, name, outcome) == [r EXCEPT !.calls = Append(@, <<name, outcome>>)]

\* A request may arrive when none is being served and the store can still mint
\* a session for it.
CanArrive == req.pc \in {"idle", "done"} /\ issued < MaxSessions

Remembered(r) == IF SameInput(req, r) THEN Digest(req) ELSE Idle

Arrived(r, us) == [r EXCEPT !.before = us]

\* console.log / console.error of the handler.
Logged(r, lines) == [r EXCEPT !.log = @ \cup lines]

----------------------------------------------------------------------------
(* The configuration of a deployment: the environment values that are set. *)

ConfigKeys ==
  {"SUPABASE_URL", "SUPABASE_SERVICE_ROLE_KEY", "SUPABASE_ANON_KEY",
   "FIREBASE_PW_VERIFY_URL"}

\* The complete deployment and the deployments with one value absent.
Deployments ==
  {ConfigKeys, ConfigKeys \ {"FIREBASE_PW_VERIFY_URL"},
   ConfigKeys \ {"SUPABASE_URL"}, ConfigKeys \ {"SUPABASE_SERVICE_ROLE_KEY"}}

\* Deno.env.get(key) ?? '' is falsy when the value is absent.
EnvGet(cfg, key) == key \in cfg

\* createClient(url, key) throws when the URL or the key is empty.
CreateClientThrows(cfg, key) ==
  ~EnvGet(cfg, "SUPABASE_URL") \/ ~EnvGet(cfg, key)

----------------------------------------------------------------------------
(* The credential-verification service (middleware verify-firebase-pw):    *)
(* answers 'valid' iff the hash of the password under the salt is the hash.*)

PwVerifyService(salt, hash, password) ==
  IF FirebaseScrypt(password, salt) = hash THEN "valid" ELSE "invalid"

\* verifyResponse.text() for each outcome of the fetch that did not throw.
PwVerifyText(o, salt, hash, password) ==
  CASE o = "ok" -> PwVerifyService(salt, hash, password)
    [] o = "error" -> "Internal Server Error"
    [] OTHER -> "<html>"

----------------------------------------------------------------------------
(* migrate-firebase-password                                               *)

MigrateInputs ==
  {<<e, p>> : e \in {EmailALower, EmailB, EmailC, EmailZ}, p \in Passwords}
    \cup {<<Empty, "p1">>, <<EmailA, None>>}

\* Slip: only the email is required.
MissingFieldsEmailOnly(email, password) == email = Empty

\* !email || !password
MissingFields(email, password) == email = Empty \/ password = None

\* catch (error)
MpInternalError(r) == Reply(r, 500, "Internal server error")

MpStart(email, password) ==
  LET r == [Idle EXCEPT !.kind = "migrate", !.email = email, !.password = password]
      r1 == CASE MissingFields(email, password) ->
                    Reply(r, 400, "Email and password are required")
               [] CreateClientThrows(config, "SUPABASE_SERVICE_ROLE_KEY")
                    \/ CreateClientThrows(config, "SUPABASE_ANON_KEY") ->
                    MpInternalError(r)
               [] OTHER -> [r EXCEPT !.pc = "login1"]
  IN /\ CanArrive
     /\ req' = Arrived(r1, users)
     /\ prev' = Remembered(r1)
     /\ UNCHANGED <<users, issued, artifacts, config, parked, client>>

\* Slip: the session of the native login is not returned.
LoginNotReturned(r, session) == [r EXCEPT !.pc = "list"]

\* Step 1: the response of the fast path.
LoginSuccessful(r, session) ==
  Respond(r, [NoResp EXCEPT !.status = 200, !.session = session,
                            !.migrated = "false"])

MpLogin1(o) ==
  /\ req.kind = "migrate" /\ req.pc = "login1"
  /\ LET r == Called(req, "signInWithPassword", o)
         i == StoreUserByEmail(users, req.email)
     IN CASE o = "throw" ->
               /\ req' = MpInternalError(r)
               /\ UNCHANGED issued
          [] o = "ok" /\ NativeLoginAccepts(users, req.email, req.password) ->
               /\ req' = LoginSuccessful(r, MintSession(users[i], issued + 1))
               /\ issued' = issued + 1
          [] OTHER ->
               /\ req' = [r EXCEPT !.pc = "list"]
               /\ UNCHANGED issued
  /\ UNCHANGED <<users, artifacts, prev, config, parked, client>>

\* Slip: the emails are compared as written.
MpFindUserExact(list, email) == Find({k \in DOMAIN list : list[k].email = email})

\* users.find(u => u.email?.toLowerCase() === email.toLowerCase())
MpFindUser(list, email) ==
  Find({k \in DOMAIN list : ToLowerCase(list[k].email) = ToLowerCase(email)})

\* Slip: the check for a missing source hash is left out.
NoFirebasePasswordUnchecked(u) == FALSE

\* !passwordHash || !passwordSalt
NoFirebasePassword(u) ==
  u.user_metadata.passwordHash = Empty \/ u.user_metadata.passwordSalt = None

OAuthHint == "This account may use OAuth (Google/Apple). Try signing in with your social account."

\* Step 2: list the users, find the record, check that it has a source hash;
\* step 3 begins by reading the URL of the credential-verification service.
MpAfterList(r, o, us) ==
  LET list == ListUsersDefault(us)
      i == MpFindUser(list, r.email)
  IN CASE o = "throw" -> MpInternalError(r)
       [] o = "error" -> Reply(r, 401, "Authentication failed")
       [] i = 0 -> Reply(r, 404, "User not found")
       [] NoFirebasePassword(list[i]) ->
            Respond(r, [NoResp EXCEPT !.status = 401, !.error = "Invalid credentials",
                                      !.hint = OAuthHint])
       [] ~EnvGet(config, "FIREBASE_PW_VERIFY_URL") ->
            Reply(r, 500, "Password verification service not configured")
       [] OTHER -> [r EXCEPT !.pc = "verify", !.user = list[i]]

MpList(o) ==
  /\ req.kind = "migrate" /\ req.pc = "list"
  /\ req' = MpAfterList(Called(req, "listUsers", o), o, users)
  /\ UNCHANGED <<users, issued, artifacts, prev, config, parked, client>>

\* Slip: tests for the failure indicator instead of the success indicator.
PasswordNotInvalid(verifyResult) == verifyResult # "invalid"

\* verifyResult !== 'valid' is the rejection.
PasswordVerified(verifyResult) == verifyResult = "valid"

\* Slip: the answer of the service is awaited and never looked at.
MpAfterVerifyUnchecked(r, o) ==
  IF o = "throw" THEN MpInternalError(r) ELSE [r EXCEPT !.pc = "update"]

\* Step 3: ask the credential-verification service.
MpAfterVerify(r, o) ==
  LET m == r.user.user_metadata
      verifyResult == PwVerifyText(o, m.passwordSalt, m.passwordHash, r.password)
  IN CASE o = "throw" -> MpInternalError(r)
       [] ~PasswordVerified(verifyResult) -> Reply(r, 401, "Invalid credentials")
       [] OTHER -> [r EXCEPT !.pc = "update"]

MpVerify(o) ==
  /\ req.kind = "migrate" /\ req.pc = "verify"
  /\ req' = MpAfterVerify(Called(req, "pwVerify", o), o)
  /\ UNCHANGED <<users, issued, artifacts, prev, config, parked, client>>

\* The attributes of an admin update: the fields named in has are given.
NoAttrs == [has |-> {}, password |-> None, user_metadata |-> NoMeta]

\* Slip: the update replaces the record's credentials by the attributes, so
\* that an update without a password clears the password.
UpdateUserByIdReplacing(us, id, attrs) ==
  [k \in DOMAIN us |->
     IF us[k].id # id THEN us[k]
     ELSE [us[k] EXCEPT
             !.password = attrs.password,
             !.user_metadata = IF "user_metadata" \in attrs.has
                                 THEN attrs.user_metadata ELSE @]]

\* auth.admin.updateUserById(id, attrs) as the store applies it: the fields
\* given are set, the others are kept.
UpdateUserById(us, id, attrs) ==
  [k \in DOMAIN us |->
     IF us[k].id # id THEN us[k]
     ELSE [us[k] EXCEPT
             !.password = IF "password" \in attrs.has THEN attrs.password ELSE @,
             !.user_metadata = IF "user_metadata" \in attrs.has
                                 THEN attrs.user_metadata ELSE @]]

\* Slip: the update carries no password.
MigrationWriteNothing(password) == NoAttrs

\* Step 4: the attributes of the migration write, { password: password }.
MigrationWrite(password) ==
  [NoAttrs EXCEPT !.has = {"password"}, !.password = password]

\* Slip: the error of the update is not looked at.
MpAfterUpdateIgnoringError(r, o) ==
  IF o = "throw" THEN MpInternalError(r) ELSE [r EXCEPT !.pc = "login2"]

\* if (updateError): the migration failed.
MpAfterUpdate(r, o) ==
  CASE o = "throw" -> MpInternalError(r)
    [] o = "error" -> Reply(r, 500, "Failed to migrate password")
    [] OTHER -> [r EXCEPT !.pc = "login2"]

MpUpdate(o) ==
  /\ req.kind = "migrate" /\ req.pc = "update"
  /\ req' = MpAfterUpdate(Called(req, "updateUserById", o), o)
  /\ users' = IF o = "ok"
                THEN UpdateUserById(users, req.user.id, MigrationWrite(req.password))
                ELSE users
  /\ UNCHANGED <<issued, artifacts, prev, config, parked, client>>

\* Slip: the response says migrated without the session of the login.
MigratedWithoutSession(r, session) ==
  Respond(r, [NoResp EXCEPT !.status = 200, !.migrated = "true"])

\* Step 5: the response after the post-migration login.
MigratedAndLoggedIn(r, session) ==
  Respond(r, [NoResp EXCEPT !.status = 200, !.session = session,
                            !.migrated = "true"])

MpLogin2(o) ==
  /\ req.kind = "migrate" /\ req.pc = "login2"
  /\ LET r == Called(req, "signInWithPassword", o)
         i == StoreUserByEmail(users, req.email)
     IN CASE o = "throw" ->
               /\ req' = MpInternalError(r)
               /\ UNCHANGED issued
          [] o = "ok" /\ NativeLoginAccepts(users, req.email, req.password) ->
               /\ req' = MigratedAndLoggedIn(r, MintSession(users[i], issued + 1))
               /\ issued' = issued + 1
          [] OTHER ->
               /\ req' = Reply(r, 500, "Password migrated but login failed")
               /\ UNCHANGED issued
  /\ UNCHANGED <<users, artifacts, prev, config, parked, client>>

----------------------------------------------------------------------------
(* The claims-verification service (middleware verify-firebase-token).     *)

\* Slip: revocation is not looked at.
VerifyIdTokenUnchecked(token, checkRevoked) ==
  CASE token.state \in {"valid", "revoked"} -> None
    [] token.state = "expired" -> "auth/id-token-expired"
    [] token.state = "malformed" -> "auth/argument-error"
    [] OTHER -> "auth/user-disabled"

\* admin.auth().verifyIdToken(token, checkRevoked): the code of the error it
\* throws, None when it returns the decoded token.
VerifyIdToken(token, checkRevoked) ==
  CASE token.state = "valid" -> None
    [] token.state = "revoked" ->
         IF checkRevoked THEN "auth/id-token-revoked" ELSE None
    [] token.state = "expired" -> "auth/id-token-expired"
    [] token.state = "malformed" -> "auth/argument-error"
    [] OTHER -> "auth/user-disabled"

\* The status and the message of the service's catch block.
VtError(code) ==
  CASE code = "auth/id-token-expired" -> [status |-> 401, error |-> "Token expired"]
    [] code = "auth/id-token-revoked" -> [status |-> 401, error |-> "Token revoked"]
    [] code = "auth/argument-error" -> [status |-> 400, error |-> "Invalid token format"]
    [] OTHER -> [status |-> 401, error |-> "Invalid or expired token"]

\* The decoded token the service sends back.
VtClaims(token) == [uid |-> token.uid, email |-> token.email]

\* app.post('/'): the answer of the service to a token.
VerifyTokenService(token) ==
  LET code == VerifyIdToken(token, TRUE)
  IN CASE token.state = "missing" -> [status |-> 400, claims |-> NoClaims]
       [] code = None -> [status |-> 200, claims |-> VtClaims(token)]
       [] OTHER -> [status |-> VtError(code).status, claims |-> NoClaims]

\* The response the handler's fetch resolves to when it does not throw: the
\* service's answer, or a 5xx when the service itself is failing.
VerifyTokenResponse(o, token) ==
  IF o = "ok" THEN VerifyTokenService(token)
              ELSE [status |-> 503, claims |-> NoClaims]

\* Slip: only a 5xx counts as a failed response.
IsOkBelow500(response) == response.status < 500

\* Response.ok
IsOk(response) == response.status >= 200 /\ response.status <= 299

Token(state, uid, email) == [state |-> state, uid |-> uid, email |-> email]

ExchangeTokens ==
  { Token("valid", "U1", EmailALower), Token("valid", "U9", EmailZ),
    Token("valid", "U1", Empty), Token("valid", "U9", EmailALower),
    Token("valid", "U9", Empty),
    Token("expired", "U1", EmailALower), Token("revoked", "U9", EmailZ),
    Token("malformed", None, Empty), NoToken }

----------------------------------------------------------------------------
(* The sign-in artifact: auth.admin.generateLink and auth.verifyOtp.       *)

\* What the action link of a magic link may carry in its query string.
LinkShapes == {"session", "token_hash", "token", "bare"}

\* The link generateLink answers with; a link carrying a session carries the
\* n-th pair of tokens of the store.
ActionLink(u, shape, n) ==
  [email |-> u.email, shape |-> shape,
   session |-> IF shape = "session" THEN MintSession(u, n) ELSE NoSession]

\* Slip: the metadata written holds the timestamp alone.
TrackWriteTimestampOnly(snapshot) ==
  [NoAttrs EXCEPT !.has = {"user_metadata"},
                  !.user_metadata =
                    [NoMeta EXCEPT !.last_firebase_session_exchange = "ts"]]

\* The metadata write that records a session exchange: the metadata as listed,
\* with the time of the exchange.
TrackWrite(snapshot) ==
  [NoAttrs EXCEPT !.has = {"user_metadata"},
                  !.user_metadata =
                    [snapshot EXCEPT !.last_firebase_session_exchange = "ts"]]

----------------------------------------------------------------------------
(* exchange-firebase-session, revision with listUsers() and tracking       *)

XaStart(token) ==
  LET r == [Idle EXCEPT !.kind = "exchange", !.token = token]
      r1 == IF token = NoToken
              THEN Reply(r, 400, "Firebase token is required")
              ELSE [r EXCEPT !.pc = "verify"]
  IN /\ CanArrive
     /\ req' = Arrived(r1, users)
     /\ prev' = Remembered(r1)
     /\ UNCHANGED <<users, issued, artifacts, config, parked, client>>

\* catch (error)
XaInternalError(r) == Reply(r, 500, "Internal server error")

\* Slip: the status of the verification service is passed on to the caller.
XaAfterVerifyPassingStatus(r, o) ==
  LET verifyResponse == VerifyTokenResponse(o, r.token)
  IN CASE o = "throw" -> XaInternalError(r)
       [] ~IsOk(verifyResponse) ->
            Reply(r, verifyResponse.status, "Invalid or expired Firebase token")
       [] CreateClientThrows(config, "SUPABASE_SERVICE_ROLE_KEY") -> XaInternalError(r)
       [] OTHER -> [r EXCEPT !.pc = "list", !.fbUser = verifyResponse.claims]

XaAfterVerify(r, o) ==
  LET verifyResponse == VerifyTokenResponse(o, r.token)
  IN CASE o = "throw" -> XaInternalError(r)
       [] ~IsOk(verifyResponse) -> Reply(r, 401, "Invalid or expired Firebase token")
       [] CreateClientThrows(config, "SUPABASE_SERVICE_ROLE_KEY") -> XaInternalError(r)
       [] OTHER -> [r EXCEPT !.pc = "list", !.fbUser = verifyResponse.claims]

XaVerify(o) ==
  /\ req.kind = "exchange" /\ req.pc = "verify"
  /\ req' = XaAfterVerify(Called(req, "verifyToken", o), o)
  /\ UNCHANGED <<users, issued, artifacts, prev, config, parked, client>>

\* The predicate of users.find: matchesUid || matchesEmail.
XaMatches(u, fbUser) ==
  LET matchesUid == u.user_metadata.uid = fbUser.uid
      matchesEmail == fbUser.email # Empty
                        /\ ToLowerCase(u.email) = ToLowerCase(fbUser.email)
  IN matchesUid \/ matchesEmail

XaFindUser(list, fbUser) == Find({k \in DOMAIN list : XaMatches(list[k], fbUser)})

\* users.slice(0, 3).forEach(... console.log({ full_user_metadata, ... })): the
\* metadata of the first three users listed goes to the log in full.
XaLogFirstUsers(r, list) ==
  Logged(r, {<<"user_metadata", list[k].id, list[k].user_metadata>> :
               k \in 1..Min(3, Len(list))})

XaAfterList(r, o, us) ==
  LET list == ListUsersDefault(us)
      i == XaFindUser(list, r.fbUser)
  IN CASE o = "throw" -> XaInternalError(r)
       [] o = "error" -> Reply(r, 500, "Failed to find user")
       [] i = 0 -> Reply(XaLogFirstUsers(r, list), 404, "User not found")
       [] OTHER -> [XaLogFirstUsers(r, list) EXCEPT !.pc = "genlink", !.user = list[i]]

XaList(o) ==
  /\ req.kind = "exchange" /\ req.pc = "list"
  /\ req' = XaAfterList(Called(req, "listUsers", o), o, users)
  /\ UNCHANGED <<users, issued, artifacts, prev, config, parked, client>>

\* urlParams.get('access_token'), urlParams.get('refresh_token')
XaExtractTokens(link) == link.session

\* The response that carries the session.
XaExchanged(r) ==
  Respond(r, [NoResp EXCEPT !.status = 200,
                            !.access_token = XaExtractTokens(r.link).access_token,
                            !.refresh_token = XaExtractTokens(r.link).refresh_token,
                            !.user_id = r.user.id])

\* tokenError || !tokenData leads to the fallback; otherwise the tokens are read.
XaAfterGenLink(r, o, link) ==
  CASE o = "throw" -> XaInternalError(r)
    [] o = "error" -> [r EXCEPT !.pc = "fallback"]
    [] XaExtractTokens(link).access_token = Empty
         \/ XaExtractTokens(link).refresh_token = Empty ->
         Reply(r, 500, "Failed to generate session tokens")
    [] OTHER -> [r EXCEPT !.pc = "track", !.link = link]

XaGenLink(o, shape) ==
  /\ req.kind = "exchange" /\ req.pc = "genlink"
  /\ LET link == ActionLink(req.user, shape, issued + 1)
     IN /\ req' = XaAfterGenLink(Called(req, "generateLink", o), o, link)
        /\ artifacts' = IF o = "ok" THEN artifacts \cup {req.user.id} ELSE artifacts
        /\ issued' = IF o = "ok" /\ shape = "session" THEN issued + 1 ELSE issued
  /\ UNCHANGED <<users, prev, config, parked, client>>

\* The fallback of a failed generateLink: the user without tokens, status 200.
XaFallbackResponse(r) ==
  Respond(r, [NoResp EXCEPT !.status = 200, !.user_id = r.user.id,
                            !.hint = "Use the migrated password or OAuth"])

XaAfterFallback(r, o) ==
  IF o = "throw" THEN Reply(r, 500, "Failed to exchange session")
                 ELSE XaFallbackResponse(r)

XaFallback(o) ==
  /\ req.kind = "exchange" /\ req.pc = "fallback"
  /\ req' = XaAfterFallback(Called(req, "updateUserById", o), o)
  /\ users' = IF o = "ok"
                THEN UpdateUserById(users, req.user.id, TrackWrite(req.user.user_metadata))
                ELSE users
  /\ UNCHANGED <<issued, artifacts, prev, config, parked, client>>

\* Slip: a failed tracking write fails the request.
XaAfterTrackPropagated(r, o) ==
  IF o = "ok" THEN XaExchanged(r) ELSE Reply(r, 500, "Failed to track session exchange")

\* Tracking is best effort: the result of the write is not looked at and a
\* thrown error is caught; every outcome leads to the response.
XaAfterTrack(r, o) == XaExchanged(r)

XaTrack(o) ==
  /\ req.kind = "exchange" /\ req.pc = "track"
  /\ req' = XaAfterTrack(Called(req, "updateUserById", o), o)
  /\ users' = IF o = "ok"
                THEN UpdateUserById(users, req.user.id, TrackWrite(req.user.user_metadata))
                ELSE users
  /\ UNCHANGED <<issued, artifacts, prev, config, parked, client>>

----------------------------------------------------------------------------
(* exchange-firebase-session, revision with findUserByEmail and verifyOtp  *)

PerPage == 1000
MaxPages == 10

\* findUserByEmail: the page loop; the index in the store of the record found, 0
\* for null.
\* Slip: a page shorter than the page size does not end the loop.
FindUserByEmailPageNoBreak(us, email, page) ==
  LET list == ListUsers(us, page, PerPage)
      k == Find({j \in DOMAIN list :
                   ToLowerCase(list[j].email) = ToLowerCase(email)})
  IN [user |-> IF k # 0 THEN (page - 1) * PerPage + k ELSE 0,
      last |-> k # 0]

\* One turn of the loop of findUserByEmail: the index in the store of the
\* record found on the page (0 if none), and whether the loop ends with it.
FindUserByEmailPage(us, email, page) ==
  LET list == ListUsers(us, page, PerPage)
      k == Find({j \in DOMAIN list :
                   ToLowerCase(list[j].email) = ToLowerCase(email)})
  IN [user |-> IF k # 0 THEN (page - 1) * PerPage + k ELSE 0,
      last |-> k # 0 \/ Len(list) < PerPage]

RECURSIVE FindUserByEmailFrom(_, _, _)
FindUserByEmailFrom(us, email, page) ==
  IF page > MaxPages THEN 0
  ELSE LET turn == FindUserByEmailPage(us, email, page)
       IN IF turn.last THEN turn.user
          ELSE FindUserByEmailFrom(us, email, page + 1)

\* Slip: the emails are compared as written, without toLowerCase.
FindUserByEmailExact(us, email) == Find({k \in DOMAIN us : us[k].email = email})

FindUserByEmail(us, email) == FindUserByEmailFrom(us, email, 1)

XbStart(token) ==
  LET r == [Idle EXCEPT !.kind = "exchange2", !.token = token]
      r1 == IF token = NoToken
              THEN Reply(r, 400, "Firebase token required")
              ELSE [r EXCEPT !.pc = "verify"]
  IN /\ CanArrive
     /\ req' = Arrived(r1, users)
     /\ prev' = Remembered(r1)
     /\ UNCHANGED <<users, issued, artifacts, config, parked, client>>

\* catch (error)
XbInternalError(r) == Reply(r, 500, "Internal error")

XbAfterVerify(r, o) ==
  LET verifyResp == VerifyTokenResponse(o, r.token)
  IN CASE o = "throw" -> XbInternalError(r)
       [] ~IsOk(verifyResp) -> Reply(r, 401, "Invalid Firebase token")
       [] verifyResp.claims.email = Empty -> Reply(r, 400, "No email in token")
       [] CreateClientThrows(config, "SUPABASE_SERVICE_ROLE_KEY") -> XbInternalError(r)
       [] OTHER -> [r EXCEPT !.pc = "find", !.fbUser = verifyResp.claims]

XbVerify(o) ==
  /\ req.kind = "exchange2" /\ req.pc = "verify"
  /\ req' = XbAfterVerify(Called(req, "verifyToken", o), o)
  /\ UNCHANGED <<users, issued, artifacts, prev, config, parked, client>>

\* An error of listUsers is thrown by findUserByEmail and caught by the handler.
XbAfterFind(r, o, us) ==
  LET i == FindUserByEmail(us, r.fbUser.email)
  IN CASE o \in {"throw", "error"} -> XbInternalError(r)
       [] i = 0 -> Reply(r, 404, "User not found")
       [] OTHER -> [r EXCEPT !.pc = "genlink", !.user = us[i]]

XbFind(o) ==
  /\ req.kind = "exchange2" /\ req.pc = "find"
  /\ req' = XbAfterFind(Called(req, "listUsers", o), o, users)
  /\ UNCHANGED <<users, issued, artifacts, prev, config, parked, client>>

\* const authToken = tokenHash || token: can the link be redeemed by the handler?
XbAuthToken(link) == link.shape \in {"token_hash", "token"}

\* console.log('Full action link:', actionLink) and the dump of its parameters.
XbLogActionLink(r, link) == Logged(r, {<<"action_link", link.email, link.shape>>})

XbAfterGenLink(r, o, link) ==
  CASE o = "throw" -> XbInternalError(r)
    [] o = "error" -> Reply(r, 500, "Failed to generate session")
    [] ~XbAuthToken(link) ->
         Reply(XbLogActionLink(r, link), 500, "Failed to extract token from magic link")
    [] CreateClientThrows(config, "SUPABASE_ANON_KEY") ->
         XbInternalError(XbLogActionLink(r, link))
    [] OTHER -> [XbLogActionLink(r, link) EXCEPT !.pc = "redeem", !.link = link]

XbGenLink(o, shape) ==
  /\ req.kind = "exchange2" /\ req.pc = "genlink"
  /\ LET link == ActionLink(req.user, shape, issued + 1)
     IN /\ req' = XbAfterGenLink(Called(req, "generateLink", o), o, link)
        /\ artifacts' = IF o = "ok" THEN artifacts \cup {req.user.id} ELSE artifacts
        /\ issued' = IF o = "ok" /\ shape = "session" THEN issued + 1 ELSE issued
  /\ UNCHANGED <<users, prev, config, parked, client>>

\* The response built from sessionData.
XbSessionCreated(r, session) ==
  Respond(r, [NoResp EXCEPT !.status = 200,
                            !.access_token = session.access_token,
                            !.refresh_token = session.refresh_token,
                            !.user_id = session.user_id])

\* auth.verifyOtp: the store redeems the outstanding artifact of the link's
\* account, once, for a fresh session.
XbRedeem(o) ==
  /\ req.kind = "exchange2" /\ req.pc = "redeem"
  /\ LET r == Called(req, "verifyOtp", o)
         i == StoreUserByEmail(users, req.link.email)
     IN CASE o = "throw" ->
               /\ req' = XbInternalError(r)
               /\ UNCHANGED <<issued, artifacts, client>>
          [] o = "ok" /\ i # 0 /\ users[i].id \in artifacts ->
               /\ req' = XbSessionCreated(r, MintSession(users[i], issued + 1))
               /\ issued' = issued + 1
               /\ artifacts' = artifacts \ {users[i].id}
          [] OTHER ->
               /\ req' = Reply(r, 500, "Failed to create session")
               /\ UNCHANGED <<issued, artifacts, client>>
  /\ UNCHANGED <<users, prev, config, parked, client>>

----------------------------------------------------------------------------

CallOutcomes == {"ok", "error", "throw"}

Init ==
  /\ users \in InitialStores
  /\ issued = 0
  /\ artifacts = {}
  /\ req = Idle
  /\ prev = Idle
  /\ config \in Deployments
  /\ parked = EmptyBag
  /\ client = NoClient

Next ==
  \/ \E in \in MigrateInputs : MpStart(in[1], in[2])
  \/ \E o \in CallOutcomes : MpLogin1(o)
  \/ \E o \in CallOutcomes : MpList(o)
  \/ \E o \in CallOutcomes \cup {"garbled"} : MpVerify(o)
  \/ \E o \in CallOutcomes : MpUpdate(o)
  \/ \E o \in CallOutcomes : MpLogin2(o)
  \/ \E t \in ExchangeTokens : XaStart(t)
  \/ \E o \in CallOutcomes : XaVerify(o)
  \/ \E o \in CallOutcomes : XaList(o)
  \/ \E o \in CallOutcomes, shape \in LinkShapes : XaGenLink(o, shape)
  \/ \E o \in CallOutcomes : XaFallback(o)
  \/ \E o \in CallOutcomes : XaTrack(o)
  \/ \E t \in ExchangeTokens : XbStart(t)
  \/ \E o \in CallOutcomes : XbVerify(o)
  \/ \E o \in CallOutcomes : XbFind(o)
  \/ \E o \in CallOutcomes, shape \in LinkShapes : XbGenLink(o, shape)
  \/ \E o \in CallOutcomes : XbRedeem(o)

Spec == Init /\ [][Next]_vars

\* Every awaited call settles: a handler that can take a step takes one.
SpecLive == Spec /\ WF_vars(Next)

----------------------------------------------------------------------------
(* Concurrent requests for one user.  The runtime serves each request in   *)
(* its own invocation of the handler; between two awaits a handler runs    *)
(* alone, so an interleaving is a sequence of handler steps with the       *)
(* request being served changing in between.  Every call is answered.      *)

\* Number of requests that may be suspended while another one runs.
MaxParked == 2

\* The not-yet-migrated password user the concurrent requests are about.
ConcurrentStore == <<UserA(None), UserB, UserC>>

ConcurrentPassword == "p1"

ConcurrentToken == Token("valid", "U1", EmailALower)

InitConcurrent ==
  /\ users = ConcurrentStore
  /\ issued = 0
  /\ artifacts = {}
  /\ req = Idle
  /\ prev = Idle
  /\ config = ConfigKeys
  /\ parked = EmptyBag
  /\ client = NoClient

\* The request being served is set aside; a new one may arrive.
Suspend ==
  /\ req.pc # "idle"
  /\ BagCardinality(parked) < MaxParked
  /\ parked' = parked (+) SetToBag({req})
  /\ req' = Idle
  /\ UNCHANGED <<users, issued, artifacts, prev, config, client>>

\* A suspended request runs again, in place of the one being served.
Resume(r) ==
  /\ BagIn(r, parked)
  /\ req' = r
  /\ parked' = IF req.pc = "idle" THEN parked (-) SetToBag({r})
                ELSE (parked (-) SetToBag({r})) (+) SetToBag({req})
  /\ UNCHANGED <<users, issued, artifacts, prev, config, client>>

NextConcurrent ==
  \/ req.pc = "idle" /\ MpStart(EmailALower, ConcurrentPassword)
  \/ MpLogin1("ok")
  \/ MpList("ok")
  \/ MpVerify("ok")
  \/ MpUpdate("ok")
  \/ MpLogin2("ok")
  \/ req.pc = "idle" /\ XaStart(ConcurrentToken)
  \/ XaVerify("ok")
  \/ XaList("ok")
  \/ XaGenLink("ok", "session")
  \/ XaTrack("ok")
  \/ Suspend
  \/ \E r \in BagToSet(parked) : Resume(r)

SpecConcurrent == InitConcurrent /\ [][NextConcurrent]_vars

----------------------------------------------------------------------------
(* Identity resolution on its own: the three lookups applied to stores of  *)
(* many records.                                                           *)

\* An imported OAuth-only user, the k-th of the records that fill a store.
Filler(k) ==
  [id |-> "f" \o ToString(k), email |-> <<"f", ToString(k), "@", "x">>,
   password |-> None,
   user_metadata |-> [NoMeta EXCEPT !.uid = "F" \o ToString(k),
                                    !.provider = "google.com"]]

LookupPaddings == {0, 48, 50, 999, 1000, 9997, 9998}

\* The store in which n other records come before the three users.
LookupStore(n) == [k \in 1..n |-> Filler(k)] \o <<UserA(None), UserB, UserC>>

LookupClaims ==
  [uid : {"U1", "U2", None}, email : {EmailALower, EmailC, EmailZ, Empty}]

InitLookup ==
  /\ users \in {LookupStore(n) : n \in LookupPaddings}
  /\ issued = 0
  /\ artifacts = {}
  /\ req \in {[Idle EXCEPT !.kind = "lookup", !.pc = "lookup", !.fbUser = c] :
                 c \in LookupClaims}
  /\ prev = Idle
  /\ config = ConfigKeys
  /\ parked = EmptyBag
  /\ client = NoClient

\* The record at index i of the list, undefined (NoUser) for index 0.
Found(list, i) == IF i = 0 THEN NoUser ELSE list[i]

\* exchange-session, first revision: listUsers() and users.find by uid or email.
LookupExchange ==
  /\ req.pc = "lookup"
  /\ LET list == ListUsersDefault(users)
     IN req' = [Called(req, "listUsers", "ok") EXCEPT
                  !.kind = "lookup-exchange", !.pc = "done",
                  !.user = Found(list, XaFindUser(list, req.fbUser))]
  /\ UNCHANGED <<users, issued, artifacts, prev, config, parked, client>>

\* migrate-password, step 2: listUsers() and users.find by email.
LookupMigrate ==
  /\ req.pc = "lookup" /\ req.fbUser.email # Empty
  /\ LET list == ListUsersDefault(users)
     IN req' = [Called(req, "listUsers", "ok") EXCEPT
                  !.kind = "lookup-migrate", !.pc = "done",
                  !.email = req.fbUser.email,
                  !.user = Found(list, MpFindUser(list, req.fbUser.email))]
  /\ UNCHANGED <<users, issued, artifacts, prev, config, parked, client>>

\* exchange-session, second revision: findUserByEmail is entered (page = 1).
LookupFindUserByEmail ==
  /\ req.pc = "lookup" /\ req.fbUser.email # Empty
  /\ req' = [req EXCEPT !.kind = "lookup-exchange2", !.pc = "findUserByEmail",
                         !.email = req.fbUser.email]
  /\ UNCHANGED <<users, issued, artifacts, prev, config, parked, client>>

\* while (page <= 10) { await listUsers({page, perPage}); ...; page++ }: one
\* turn of the loop, page being one more than the list calls made.
LookupFindPage ==
  /\ req.pc = "findUserByEmail"
  /\ LET page == Len(req.calls) + 1
         turn == FindUserByEmailPage(users, req.email, page)
         r == Called(req, "listUsers", "ok")
     IN req' = IF turn.last \/ page + 1 > MaxPages
                 THEN [r EXCEPT !.pc = "done", !.user = Found(users, turn.user)]
                 ELSE r
  /\ UNCHANGED <<users, issued, artifacts, prev, config, parked, client>>

NextLookup ==
  \/ LookupExchange
  \/ LookupMigrate
  \/ LookupFindUserByEmail
  \/ LookupFindPage

SpecLookup == InitLookup /\ [][NextLookup]_vars

----------------------------------------------------------------------------
(* The migration-state reports: the state breakdown of the tracking SQL    *)
(* and of the monitoring script, applied to a row of auth.users.           *)

\* A row of auth.users as the reports read it: encrypted_password,
\* raw_user_meta_data->'fbuser' (absent, without passwordHash, with it),
\* raw_user_meta_data->>'last_firebase_session_exchange' (NULL, '', a time)
\* and raw_app_meta_data->>'provider' (NULL, 'email', another provider).
ReportRows ==
  [encrypted_password : {None, "bcrypt"},
   fbuser : {"absent", "nohash", "hash"},
   last_firebase_session_exchange : {None, "", "ts"},
   provider : {None, "email", "google"}]

\* raw_user_meta_data->'fbuser'->'passwordHash' IS NOT NULL
RowHasPasswordHash(row) == row.fbuser = "hash"

\* raw_app_meta_data->>'provider' != 'email', which is not true of NULL.
RowProviderNotEmail(row) == row.provider # None /\ row.provider # "email"

\* WHERE raw_user_meta_data->'fbuser' IS NOT NULL OR encrypted_password IS NOT NULL
RowReported(row) == row.fbuser # "absent" \/ row.encrypted_password # None

\* The CASE of "2. MIGRATION STATE BREAKDOWN" of the tracking SQL.
SqlMigrationState(row) ==
  CASE row.encrypted_password # None /\ RowHasPasswordHash(row) ->
         "FULLY MIGRATED (Ready for cleanup)"
    [] row.encrypted_password # None /\ ~RowHasPasswordHash(row) ->
         "FULLY MIGRATED (Cleaned)"
    [] row.last_firebase_session_exchange # None
         /\ row.encrypted_password = None /\ RowHasPasswordHash(row) ->
         "SESSION EXCHANGED ONLY (Not fully migrated)"
    [] row.encrypted_password = None /\ RowHasPasswordHash(row)
         /\ (row.last_firebase_session_exchange = None
               \/ row.last_firebase_session_exchange = "") ->
         "NOT MIGRATED (Waiting for first sign-in)"
    [] RowProviderNotEmail(row) -> "OAUTH USER (No password to migrate)"
    [] OTHER -> "UNKNOWN STATE"

\* The CASE of "MIGRATION STATE BREAKDOWN" of the monitoring script.
MonitorMigrationState(row) ==
  CASE row.encrypted_password # None /\ RowHasPasswordHash(row) -> "Fully Migrated"
    [] row.last_firebase_session_exchange # None
         /\ row.encrypted_password = None /\ RowHasPasswordHash(row) ->
         "Session Exchange Only"
    [] row.encrypted_password = None /\ RowHasPasswordHash(row) -> "Not Migrated"
    [] RowProviderNotEmail(row) -> "OAuth User"
    [] OTHER -> "Unknown"

InitReport ==
  /\ users \in {<<row>> : row \in ReportRows}
  /\ issued = 0
  /\ artifacts = {}
  /\ req = [kind |-> "report", pc |-> "query", state |-> None]
  /\ prev = Idle
  /\ config = ConfigKeys
  /\ parked = EmptyBag
  /\ client = NoClient

\* The state the query groups a row under; None for a row the WHERE leaves out.
Reported(kind, row, state) ==
  [kind |-> kind, pc |-> "done", state |-> IF RowReported(row) THEN state ELSE None]

\* The tracking SQL is run on the table.
RunSqlBreakdown ==
  /\ req.pc = "query"
  /\ req' = Reported("sql", users[1], SqlMigrationState(users[1]))
  /\ UNCHANGED <<users, issued, artifacts, prev, config, parked, client>>

\* The monitoring script is run on the table.
RunMonitorBreakdown ==
  /\ req.pc = "query"
  /\ req' = Reported("monitor", users[1], MonitorMigrationState(users[1]))
  /\ UNCHANGED <<users, issued, artifacts, prev, config, parked, client>>

NextReport ==
  \/ RunSqlBreakdown
  \/ RunMonitorBreakdown

SpecReport == InitReport /\ [][NextReport]_vars

----------------------------------------------------------------------------
(* The incremental import script: source users created since a cutoff are  *)
(* inserted into the target store, one INSERT per user.  The script may be *)
(* run again with the same cutoff while the gateway migrates passwords.    *)

\* Creation times and cutoffs are points in time 0 .. MaxTime.
MaxTime == 4

\* listUsers(1000, nextPageToken): the users of one page.
PageSize == 2

\* The script is run MaxRuns times with the same cutoff.
MaxRuns == 2

FirebaseUser(uid, email, hash, salt, provider, creationTime) ==
  [uid |-> uid, email |-> email, passwordHash |-> hash, passwordSalt |-> salt,
   providerId |-> provider, creationTime |-> creationTime]

\* The users of the source provider, in the order listUsers returns them:
\* the two users the bulk import has inserted, a phone user without email, a
\* user whose email was registered in the target store itself, a new password
\* user, and a second user without email.
FirebaseUsers ==
  << FirebaseUser("U1", EmailA, FirebaseScrypt("p1", "s1"), "s1", "password", 1),
     FirebaseUser("U2", EmailB, Empty, None, "google.com", 2),
     FirebaseUser("U3", Empty, Empty, None, "phone", 2),
     FirebaseUser("U4", EmailC, FirebaseScrypt("p2", "s4"), "s4", "password", 3),
     FirebaseUser("U5", <<"o", "'", "@", "x">>, FirebaseScrypt("p1", "s5"), "s5", "password", 3),
     FirebaseUser("U6", Empty, Empty, None, "phone", 4) >>

\* replace(/'/g, "''"): every quote of a string is doubled.
RECURSIVE EscapeQuotes(_)
EscapeQuotes(s) ==
  IF s = <<>> THEN <<>>
  ELSE IF Head(s) = "'" THEN <<"'", "'">> \o EscapeQuotes(Tail(s))
  ELSE <<Head(s)>> \o EscapeQuotes(Tail(s))

\* The value the server reads from the body of a quoted SQL literal: two
\* quotes stand for one.
RECURSIVE SqlLiteralValue(_)
SqlLiteralValue(s) ==
  IF s = <<>> THEN <<>>
  ELSE IF Head(s) = "'" /\ Len(s) >= 2 /\ s[2] = "'"
         THEN <<"'">> \o SqlLiteralValue(Tail(Tail(s)))
  ELSE <<Head(s)>> \o SqlLiteralValue(Tail(s))

\* uuid_generate_v4(): an id no record of the store has.
UuidGenerateV4(us) ==
  LET uuids == <<"id4", "id5", "id6", "id7", "id8", "id9", "id10", "id11", "id12">>
  IN uuids[CHOOSE n \in DOMAIN uuids :
             /\ \A k \in DOMAIN us : us[k].id # uuids[n]
             /\ \A m \in 1 .. n - 1 : \E k \in DOMAIN us : us[k].id = uuids[m]]

\* The row of the INSERT: the escaped email, encrypted_password null, and the
\* source user under raw_user_meta_data.fbuser.
InsertedRow(us, user) ==
  [id |-> UuidGenerateV4(us),
   email |-> SqlLiteralValue(EscapeQuotes(user.email)),
   password |-> None,
   user_metadata |-> [uid |-> user.uid,
                      passwordHash |-> user.passwordHash,
                      passwordSalt |-> user.passwordSalt,
                      provider |-> user.providerId,
                      last_firebase_session_exchange |-> None]]

\* Slip: the INSERT without its ON CONFLICT clause.
ImportUserWithoutConflictClause(us, user) == Append(us, InsertedRow(us, user))

\* importUser: INSERT INTO auth.users ... ON CONFLICT (email) DO NOTHING.
ImportUser(us, user) ==
  LET row == InsertedRow(us, user)
  IN IF \E k \in DOMAIN us : us[k].email = row.email THEN us ELSE Append(us, row)

\* A run of the script from its start.  afterFirst is the store as the first
\* run left it and migrated the records whose password the gateway has set
\* since; clean says that no call of the first run has failed.
ImportRun(sinceTimestamp, run, clean, afterFirst) ==
  [kind |-> "incremental_import", pc |-> "list", sinceTimestamp |-> sinceTimestamp,
   run |-> run, pageToken |-> 1, batch |-> <<>>, user |-> 0,
   importedCount |-> 0, skippedCount |-> 0,
   clean |-> clean, afterFirst |-> afterFirst, migrated |-> {}]

InitImport ==
  /\ users \in InitialStores
  /\ issued = 0
  /\ artifacts = {}
  /\ req \in {ImportRun(t, 1, TRUE, <<>>) : t \in 0 .. MaxTime}
  /\ prev = Idle
  /\ config = ConfigKeys
  /\ parked = EmptyBag
  /\ client = NoClient

\* The end of a run; the store the first run leaves is remembered.
ImEnd(r, pc, us) ==
  [r EXCEPT !.pc = pc, !.afterFirst = IF r.run = 1 THEN us ELSE @]

ImFailed(r) == [r EXCEPT !.clean = IF r.run = 1 THEN FALSE ELSE @]

\* The loop over the users of a page is left: the next page is listed, or
\* main finishes.
ImAfterUser(r, us) ==
  CASE r.batch # <<>> -> r
    [] r.pageToken # 0 -> [r EXCEPT !.pc = "list"]
    [] OTHER -> ImEnd(r, "done", us)

\* listAndImportUsers: admin.auth().listUsers(1000, nextPageToken) answers
\* one page of the source users and the token of the page after it (0: none).
\* A rejection is caught nowhere and ends the process.
ImListUsers(o) ==
  /\ req.kind = "incremental_import" /\ req.pc = "list"
  /\ req' = IF o = "throw" THEN ImEnd(ImFailed(req), "failed", users)
            ELSE ImAfterUser(
                   [req EXCEPT
                      !.pc = "users",
                      !.batch = ListUsers(FirebaseUsers, req.pageToken, PageSize),
                      !.pageToken = IF req.pageToken * PageSize < Len(FirebaseUsers)
                                      THEN req.pageToken + 1 ELSE 0],
                   users)
  /\ UNCHANGED <<users, issued, artifacts, prev, config, parked, client>>

\* The body of the loop for one user: a user created since the cutoff is
\* imported, a failed query is logged, an older user is skipped.
ImNextUser(o) ==
  /\ req.kind = "incremental_import" /\ req.pc = "users" /\ req.batch # <<>>
  /\ LET user == Head(req.batch)
         rest == [req EXCEPT !.batch = Tail(req.batch), !.user = user.uid]
     IN CASE ~(user.creationTime >= req.sinceTimestamp) ->
               /\ o = "ok"
               /\ users' = users
               /\ req' = ImAfterUser([rest EXCEPT !.skippedCount = @ + 1], users)
          [] o = "throw" ->
               /\ users' = users
               /\ req' = ImAfterUser(ImFailed(rest), users)
          [] OTHER ->
               /\ users' = ImportUser(users, user)
               /\ req' = ImAfterUser([rest EXCEPT !.importedCount = @ + 1], users')
  /\ UNCHANGED <<issued, artifacts, prev, config, parked, client>>

\* The script is started again with the same cutoff.
ImRunAgain ==
  /\ req.kind = "incremental_import" /\ req.pc \in {"done", "failed"}
  /\ req.run < MaxRuns
  /\ req' = [ImportRun(req.sinceTimestamp, req.run + 1, req.clean, req.afterFirst)
               EXCEPT !.migrated = req.migrated]
  /\ UNCHANGED <<users, issued, artifacts, prev, config, parked, client>>

\* In between, the gateway migrates the password of an imported user: the
\* write of migrate-firebase-password.
ImPasswordMigrated(k) ==
  /\ req.kind = "incremental_import"
  /\ k \in DOMAIN users
  /\ users[k].password = None /\ users[k].user_metadata.passwordHash # Empty
  /\ users' = UpdateUserById(users, users[k].id,
                             MigrationWrite(users[k].user_metadata.passwordHash[2]))
  /\ req' = [req EXCEPT !.migrated = IF req.afterFirst # <<>> THEN @ \cup {k} ELSE @]
  /\ UNCHANGED <<issued, artifacts, prev, config, parked, client>>

NextImport ==
  \/ \E o \in {"ok", "throw"} : ImListUsers(o)
  \/ \E o \in {"ok", "throw"} : ImNextUser(o)
  \/ ImRunAgain
  \/ \E k \in 1 .. Len(FirebaseUsers) + 3 : ImPasswordMigrated(k)

SpecImport == InitImport /\ [][NextImport]_vars

----------------------------------------------------------------------------
(* The React Native helpers (authMigration, sessionExchange) and the       *)
(* example App, run on one device.  A helper runs from call to return in   *)
(* one step; what each awaited call answers is chosen by the environment.  *)
(* client.session is the session the Supabase client holds, named after    *)
(* where it came from.                                                     *)

NoResult ==
  [session |-> None, error |-> None, migrated |-> FALSE, success |-> FALSE,
   hasSupabaseSession |-> FALSE, needsSignIn |-> FALSE, needsMigration |-> FALSE,
   exchanged |-> FALSE, url |-> FALSE]

NoCall == [kind |-> "none", pc |-> "idle", calls |-> <<>>, before |-> NoClient,
           result |-> NoResult]

\* What a helper leaves behind when it returns.
Out(c, calls, result) == [client |-> c, calls |-> calls, result |-> result]

\* supabase.auth.onAuthStateChange of the App: SIGNED_IN with a user shows the
\* signed-in screen, SIGNED_OUT the sign-in screen.
OnAuthStateChange(c, event) ==
  CASE event = "SIGNED_IN" -> [c EXCEPT !.authMode = "signedIn"]
    [] event = "SIGNED_OUT" -> [c EXCEPT !.authMode = "needsSignIn"]
    [] OTHER -> c

\* The Supabase client takes a session and tells its listeners.
HoldSession(c, session) == OnAuthStateChange([c EXCEPT !.session = session], "SIGNED_IN")

\* The answers of the migrate-firebase-password endpoint to the helper's fetch:
\* the fetch throws, 200 with a session (migrated or not), an error status.
MigrateAnswers ==
  {[thrown |-> TRUE, ok |-> FALSE, session |-> None, migrated |-> FALSE],
   [thrown |-> FALSE, ok |-> TRUE, session |-> "endpoint", migrated |-> TRUE],
   [thrown |-> FALSE, ok |-> TRUE, session |-> "endpoint", migrated |-> FALSE],
   [thrown |-> FALSE, ok |-> FALSE, session |-> None, migrated |-> FALSE]}

\* The answers of the exchange-firebase-session endpoint: the fetch throws, 200
\* with tokens, 200 without tokens (the fallback of the first revision), an
\* error status.
ExchangeAnswers ==
  {[thrown |-> TRUE, ok |-> FALSE, access_token |-> FALSE],
   [thrown |-> FALSE, ok |-> TRUE, access_token |-> TRUE],
   [thrown |-> FALSE, ok |-> TRUE, access_token |-> FALSE],
   [thrown |-> FALSE, ok |-> FALSE, access_token |-> FALSE]}

\* What the awaited calls of one helper run answer when every call answers:
\* the environment the others are varied from.
Calm ==
  [login |-> "session",
   migrate |-> [thrown |-> FALSE, ok |-> TRUE, session |-> "endpoint", migrated |-> TRUE],
   exchange |-> [thrown |-> FALSE, ok |-> TRUE, access_token |-> TRUE],
   setSession |-> "ok", getSession |-> "ok", signOut |-> "ok", oauth |-> "url",
   getIdToken |-> "ok", getItem |-> "ok", setItem |-> "ok", removeItem |-> "ok"]

\* The error a catch block reports.
Caught == "thrown"

----------------------------------------------------------------------------
(* authMigration.ts                                                        *)

\* migrateFirebasePassword: fetch of the endpoint, setSession with its session.
MigrateFirebasePassword(c, e) ==
  LET fetched == <<<<"migrate-endpoint", IF e.migrate.thrown THEN "throw" ELSE "ok">>>>
      failed == [session |-> None, error |-> "Migration failed", migrated |-> FALSE]
  IN CASE e.migrate.thrown -> Out(c, fetched, [failed EXCEPT !.error = Caught])
       [] e.migrate.ok /\ e.migrate.session # None ->
            LET calls == Append(fetched, <<"setSession", e.setSession>>)
            IN IF e.setSession = "throw"
                 THEN Out(c, calls, [failed EXCEPT !.error = Caught])
                 ELSE Out(IF e.setSession = "ok" THEN HoldSession(c, e.migrate.session)
                                                 ELSE c,
                          calls,
                          [session |-> e.migrate.session, error |-> None,
                           migrated |-> e.migrate.migrated])
       [] OTHER -> Out(c, fetched, failed)

\* AsyncStorage.setItem(key, 'true') followed by the return of result; a
\* setItem that throws lands in the catch block of the helper, which returns
\* caught.
SetItemThenReturn(c, calls, e, key, result, caught) ==
  IF e.setItem = "throw"
    THEN Out(c, Append(calls, <<"setItem", "throw">>), caught)
    ELSE Out([c EXCEPT ![key] = "true"], Append(calls, <<"setItem", "ok">>), result)

\* Slip: the endpoint is tried whenever the direct login gave no session.
TriesMigrationWithoutError(login) == login # "session"

\* if (error): the direct login failed, the migration endpoint is tried.
TriesMigration(login) == login = "error"

\* signInWithPassword(email, password)
SignInWithPassword(c, e) ==
  LET direct == <<<<"signInWithPassword", e.login>>>>
      caught == [NoResult EXCEPT !.error = Caught]
  IN CASE e.login = "throw" -> Out(c, direct, caught)
       [] e.login = "session" ->
            SetItemThenReturn(HoldSession(c, "native"), direct, e, "migration_complete",
                              [NoResult EXCEPT !.session = "native"], caught)
       [] TriesMigration(e.login) ->
            LET m == MigrateFirebasePassword(c, e)
                calls == direct \o m.calls
            IN IF m.result.session # None
                 THEN SetItemThenReturn(m.client, calls, e, "migration_complete",
                                        [NoResult EXCEPT !.session = m.result.session,
                                                         !.migrated = TRUE],
                                        caught)
                 ELSE Out(m.client, calls, [NoResult EXCEPT !.error = m.result.error])
       [] OTHER -> Out(c, direct, NoResult)

\* signInWithOAuth(provider): the flag is set once the provider's URL is there.
SignInWithOAuth(c, e) ==
  LET calls == <<<<"signInWithOAuth", e.oauth>>>>
      caught == [NoResult EXCEPT !.error = Caught]
  IN CASE e.oauth = "throw" -> Out(c, calls, caught)
       [] e.oauth = "url" ->
            SetItemThenReturn([c EXCEPT !.oauthOpened = TRUE], calls, e,
                              "migration_complete", [NoResult EXCEPT !.url = TRUE],
                              caught)
       [] OTHER -> Out(c, calls, [NoResult EXCEPT !.error = "oauth"])

\* checkMigrationStatus()
CheckMigrationStatus(c, e) ==
  LET needs == [NoResult EXCEPT !.needsMigration = TRUE]
      has == [NoResult EXCEPT !.hasSupabaseSession = TRUE]
      got == <<<<"getItem", e.getItem>>>>
      asked == Append(got, <<"getSession", e.getSession>>)
  IN CASE e.getItem = "throw" -> Out(c, got, needs)
       [] c.migration_complete = "true" -> Out(c, got, has)
       [] e.getSession = "throw" -> Out(c, asked, needs)
       [] c.session # None ->
            SetItemThenReturn(c, asked, e, "migration_complete", has, needs)
       [] OTHER -> Out(c, asked, needs)

\* signOut(): supabase.auth.signOut(), then the flag is removed.
SignOut(c, e) ==
  LET calls == <<<<"signOut", e.signOut>>>>
      left == IF e.signOut = "ok" THEN OnAuthStateChange([c EXCEPT !.session = None],
                                                         "SIGNED_OUT")
                                  ELSE c
      caught == [NoResult EXCEPT !.error = Caught]
  IN CASE e.signOut = "throw" -> Out(c, calls, caught)
       [] e.removeItem = "throw" ->
            Out(left, Append(calls, <<"removeItem", "throw">>), caught)
       [] OTHER ->
            Out([left EXCEPT !.migration_complete = None],
                Append(calls, <<"removeItem", "ok">>),
                [NoResult EXCEPT !.error = IF e.signOut = "error" THEN "signOut"
                                                                   ELSE None])

----------------------------------------------------------------------------
(* sessionExchange.ts                                                      *)

\* exchangeFirebaseSession(firebaseToken)
ExchangeFirebaseSession(c, e) ==
  LET fetched == <<<<"exchange-endpoint", IF e.exchange.thrown THEN "throw" ELSE "ok">>>>
      failed == [NoResult EXCEPT !.error = "Failed to exchange session"]
      caught == [failed EXCEPT !.error = Caught]
      set == Append(fetched, <<"setSession", e.setSession>>)
  IN CASE e.exchange.thrown -> Out(c, fetched, caught)
       [] e.exchange.ok /\ e.exchange.access_token ->
            CASE e.setSession = "throw" -> Out(c, set, caught)
              [] e.setSession = "error" -> Out(c, set, [failed EXCEPT !.error = "setSession"])
              [] OTHER ->
                   SetItemThenReturn(HoldSession(c, "exchanged"), set, e,
                                     "session_exchanged",
                                     [NoResult EXCEPT !.success = TRUE,
                                                      !.session = "exchanged"],
                                     caught)
       [] OTHER -> Out(c, fetched, failed)

\* The tail of checkAndExchangeFirebaseSession: no Supabase session was found;
\* with a Firebase user its token is exchanged, and without success the user
\* needs to sign in.
ExchangeOrSignIn(c, calls, e) ==
  LET needsSignIn == [NoResult EXCEPT !.needsSignIn = TRUE]
      token == Append(calls, <<"getIdToken", e.getIdToken>>)
      x == ExchangeFirebaseSession(c, e)
  IN CASE ~c.currentUser -> Out(c, calls, needsSignIn)
       [] e.getIdToken = "throw" -> Out(c, token, needsSignIn)
       [] x.result.success ->
            Out(x.client, token \o x.calls,
                [NoResult EXCEPT !.hasSupabaseSession = TRUE,
                                 !.session = x.result.session, !.exchanged = TRUE])
       [] OTHER -> Out(x.client, token \o x.calls, needsSignIn)

\* Slip: the exchange is tried without looking for a Supabase session.
CheckSupabaseSessionSkipped(c, calls, e) == ExchangeOrSignIn(c, calls, e)

\* The middle of checkAndExchangeFirebaseSession: the second getSession.
CheckSupabaseSession(c, calls, e) ==
  LET asked == Append(calls, <<"getSession", e.getSession>>)
      caught == [NoResult EXCEPT !.error = Caught]
      has == [NoResult EXCEPT !.hasSupabaseSession = TRUE, !.session = c.session]
  IN CASE e.getSession = "throw" -> Out(c, asked, caught)
       [] c.session # None ->
            SetItemThenReturn(c, asked, e, "session_exchanged", has, caught)
       [] OTHER -> ExchangeOrSignIn(c, asked, e)

\* checkAndExchangeFirebaseSession(firebaseAuth)
CheckAndExchangeFirebaseSession(c, e) ==
  LET got == <<<<"getItem", e.getItem>>>>
      asked == Append(got, <<"getSession", e.getSession>>)
      removed == Append(asked, <<"removeItem", e.removeItem>>)
      caught == [NoResult EXCEPT !.error = Caught]
      has == [NoResult EXCEPT !.hasSupabaseSession = TRUE, !.session = c.session]
  IN CASE e.getItem = "throw" -> Out(c, got, caught)
       [] c.session_exchanged # "true" -> CheckSupabaseSession(c, got, e)
       [] e.getSession = "throw" -> Out(c, asked, caught)
       [] c.session # None -> Out(c, asked, has)
       [] e.removeItem = "throw" -> Out(c, removed, caught)
       [] OTHER ->
            CheckSupabaseSession([c EXCEPT !.session_exchanged = None], removed, e)

\* signOutBoth(firebaseAuth): Supabase, Firebase, then the exchange flag.
SignOutBoth(c, e) ==
  LET calls == <<<<"signOut", e.signOut>>>>
      left == IF e.signOut = "ok" THEN OnAuthStateChange([c EXCEPT !.session = None],
                                                         "SIGNED_OUT")
                                  ELSE c
      out == [left EXCEPT !.currentUser = FALSE]
  IN CASE e.signOut = "throw" -> Out(c, calls, NoResult)
       [] e.removeItem = "throw" ->
            Out(out, Append(calls, <<"removeItem", "throw">>), NoResult)
       [] OTHER ->
            Out([out EXCEPT !.session_exchanged = None],
                Append(calls, <<"removeItem", "ok">>), NoResult)

----------------------------------------------------------------------------
(* The example App and the device.                                         *)

\* checkInitialAuthState: what the App does with the result of the check.
AfterInitialCheck(c, result) ==
  CASE result.hasSupabaseSession -> [c EXCEPT !.authMode = "signedIn"]
    [] result.needsSignIn -> [c EXCEPT !.authMode = "needsSignIn"]
    [] OTHER -> c

Returned(kind, before, out, c) ==
  [kind |-> kind, pc |-> "done", calls |-> out.calls, before |-> before,
   result |-> out.result]

InitClient ==
  /\ users = ConcurrentStore
  /\ issued = 0
  /\ artifacts = {}
  /\ req = NoCall
  /\ prev = Idle
  /\ config = ConfigKeys
  /\ parked = EmptyBag
  /\ client \in {[NoClient EXCEPT !.currentUser = b] : b \in BOOLEAN}

\* The App starts (useEffect): checkInitialAuthState.
AppStart(e) ==
  LET c == [client EXCEPT !.authMode = "checking", !.oauthOpened = FALSE]
      out == CheckAndExchangeFirebaseSession(c, e)
  IN /\ client' = AfterInitialCheck(out.client, out.result)
     /\ req' = Returned("checkAndExchangeFirebaseSession", client, out, client')
     /\ UNCHANGED <<users, issued, artifacts, prev, config, parked>>

\* handlePasswordLogin: signInWithPassword, then the signed-in screen when it
\* returned a session and no error.
PasswordLogin(e) ==
  LET out == SignInWithPassword(client, e)
  IN /\ client' = IF out.result.error = None /\ out.result.session # None
                    THEN [out.client EXCEPT !.authMode = "signedIn"]
                    ELSE out.client
     /\ req' = Returned("signInWithPassword", client, out, client')
     /\ UNCHANGED <<users, issued, artifacts, prev, config, parked>>

\* handleOAuthLogin
OAuthLogin(e) ==
  LET out == SignInWithOAuth(client, e)
  IN /\ client' = out.client
     /\ req' = Returned("signInWithOAuth", client, out, client')
     /\ UNCHANGED <<users, issued, artifacts, prev, config, parked>>

\* The provider redirects back to the app: the Supabase client has a session.
OAuthCallback ==
  /\ client.oauthOpened
  /\ client' = HoldSession([client EXCEPT !.oauthOpened = FALSE], "oauth")
  /\ req' = NoCall
  /\ UNCHANGED <<users, issued, artifacts, prev, config, parked>>

\* signOut() of authMigration is called.
SignedOut(e) ==
  LET out == SignOut(client, e)
  IN /\ client' = out.client
     /\ req' = Returned("signOut", client, out, client')
     /\ UNCHANGED <<users, issued, artifacts, prev, config, parked>>

\* handleSignOut: signOutBoth, then the sign-in screen.
SignedOutBoth(e) ==
  LET out == SignOutBoth(client, e)
  IN /\ client' = [out.client EXCEPT !.authMode = "needsSignIn"]
     /\ req' = Returned("signOutBoth", client, out, client')
     /\ UNCHANGED <<users, issued, artifacts, prev, config, parked>>

\* manualSessionExchange(firebaseToken)
ManualSessionExchange(e) ==
  LET out == ExchangeFirebaseSession(client, e)
  IN /\ client' = out.client
     /\ req' = Returned("exchangeFirebaseSession", client, out, client')
     /\ UNCHANGED <<users, issued, artifacts, prev, config, parked>>

\* checkMigrationStatus() is called.
MigrationStatusChecked(e) ==
  LET out == CheckMigrationStatus(client, e)
  IN /\ client' = out.client
     /\ req' = Returned("checkMigrationStatus", client, out, client')
     /\ UNCHANGED <<users, issued, artifacts, prev, config, parked>>

\* The session of the Supabase client expires and cannot be refreshed.
SessionExpires ==
  /\ client.session # None
  /\ client' = [client EXCEPT !.session = None]
  /\ req' = NoCall
  /\ UNCHANGED <<users, issued, artifacts, prev, config, parked>>

\* The user signs in to Firebase in the old part of the app.
FirebaseSignIn ==
  /\ ~client.currentUser
  /\ client' = [client EXCEPT !.currentUser = TRUE]
  /\ req' = NoCall
  /\ UNCHANGED <<users, issued, artifacts, prev, config, parked>>

\* The environments a helper is run in: one call of AsyncStorage at most
\* fails, and a call whose answer is not read answers as in Calm.
StorageFaults ==
  {[getItem |-> g, setItem |-> t, removeItem |-> r] :
     <<g, t, r>> \in {<<"ok", "ok", "ok">>, <<"throw", "ok", "ok">>,
                      <<"ok", "throw", "ok">>, <<"ok", "ok", "throw">>}}

WithStorage(e, f) ==
  [e EXCEPT !.getItem = f.getItem, !.setItem = f.setItem, !.removeItem = f.removeItem]

ExchangeEnvs ==
  {[Calm EXCEPT !.exchange = x, !.setSession = ss] :
     <<x, ss>> \in {y \in ExchangeAnswers \X {"ok", "error", "throw"} :
                      y[2] # "ok" => y[1].ok /\ y[1].access_token}}

MigrateEnvs ==
  {[Calm EXCEPT !.login = l, !.migrate = m, !.setSession = ss] :
     <<l, m, ss>> \in
       {y \in {"session", "error", "none", "throw"} \X MigrateAnswers
                \X {"ok", "error", "throw"} :
          /\ y[1] # "error" => y[2] = Calm.migrate
          /\ y[3] # "ok" => y[1] = "error" /\ y[2].ok}}

NextClient ==
  \/ \E e \in ExchangeEnvs, f \in StorageFaults, gs \in {"ok", "throw"},
        tk \in {"ok", "throw"} :
        AppStart(WithStorage([e EXCEPT !.getSession = gs, !.getIdToken = tk], f))
  \/ \E e \in MigrateEnvs, f \in StorageFaults : PasswordLogin(WithStorage(e, f))
  \/ \E o \in {"url", "error", "throw"}, f \in StorageFaults :
        OAuthLogin(WithStorage([Calm EXCEPT !.oauth = o], f))
  \/ OAuthCallback
  \/ \E so \in {"ok", "error", "throw"}, f \in StorageFaults :
        SignedOut(WithStorage([Calm EXCEPT !.signOut = so], f))
  \/ \E so \in {"ok", "error", "throw"}, f \in StorageFaults :
        SignedOutBoth(WithStorage([Calm EXCEPT !.signOut = so], f))
  \/ \E e \in ExchangeEnvs, f \in StorageFaults : ManualSessionExchange(WithStorage(e, f))
  \/ \E f \in StorageFaults, gs \in {"ok", "throw"} :
        MigrationStatusChecked(WithStorage([Calm EXCEPT !.getSession = gs], f))
  \/ SessionExpires
  \/ FirebaseSignIn

SpecClient == InitClient /\ [][NextClient]_vars

----------------------------------------------------------------------------
(* The claims-verification service on its own: app.post('/') serving one   *)
(* request at a time.                                                      *)

ServiceTokens ==
  {Token(s, u, e) : s \in {"valid", "expired", "revoked", "malformed", "disabled"},
                    u \in {"U1", "U2", "U9"},
                    e \in {Empty, EmailALower, EmailB, EmailC, EmailZ}}
    \cup {NoToken}

InitTokenService ==
  /\ users = ConcurrentStore
  /\ issued = 0
  /\ artifacts = {}
  /\ req = Idle
  /\ prev = Idle
  /\ config = ConfigKeys
  /\ parked = EmptyBag
  /\ client = NoClient

\* const { token } = req.body; if (!token) ...
VtStart(token) ==
  LET r == [Idle EXCEPT !.kind = "verify-token", !.token = token]
  IN /\ req.pc \in {"idle", "done"}
     /\ req' = IF token.state = "missing" THEN Reply(r, 400, "Token is required")
                ELSE [r EXCEPT !.pc = "verifyIdToken"]
     /\ UNCHANGED <<users, issued, artifacts, prev, config, parked, client>>

\* try { await verifyIdToken(token, true); 200 } catch (error) { 401 or 400 }
VtAfterVerify(r, code) ==
  IF code = None
    THEN Respond([Called(r, "verifyIdToken", "ok") EXCEPT !.fbUser = VtClaims(r.token)],
                 [NoResp EXCEPT !.status = 200])
    ELSE Reply(Called(r, "verifyIdToken", "throw"), VtError(code).status,
               VtError(code).error)

VtVerify ==
  /\ req.kind = "verify-token" /\ req.pc = "verifyIdToken"
  /\ req' = VtAfterVerify(req, VerifyIdToken(req.token, TRUE))
  /\ UNCHANGED <<users, issued, artifacts, prev, config, parked, client>>

NextTokenService ==
  \/ \E t \in ServiceTokens : VtStart(t)
  \/ VtVerify

SpecTokenService == InitTokenService /\ [][NextTokenService]_vars

----------------------------------------------------------------------------
(* Vocabulary of the properties.                                           *)

IsExchange(r) == r.kind \in {"exchange", "exchange2"}
IsMigrate(r) == r.kind = "migrate"
IsDone(r) == r.pc = "done"

\* The configuration values the endpoint of a request reads.
RequiredConfig(kind) ==
  CASE kind = "migrate" -> ConfigKeys
    [] kind = "exchange" -> {"SUPABASE_URL", "SUPABASE_SERVICE_ROLE_KEY"}
    [] kind = "exchange2" ->
         {"SUPABASE_URL", "SUPABASE_SERVICE_ROLE_KEY", "SUPABASE_ANON_KEY"}
    [] OTHER -> {}

Misconfigured(r) == ~(RequiredConfig(r.kind) \subseteq config)

\* The deployment has every value the endpoint of the request reads.
Configured(r) == ~Misconfigured(r)

\* Every call the request awaited so far was answered without failure.
NoFault(r) == \A k \in DOMAIN r.calls : r.calls[k][2] = "ok"

CallNames(r) == {r.calls[k][1] : k \in DOMAIN r.calls}

HasCall(r, name, outcome) == \E k \in DOMAIN r.calls : r.calls[k] = <<name, outcome>>

\* The response hands out a session or tokens.
GrantsSession(resp) ==
  resp.session # NoSession \/ resp.access_token # Empty \/ resp.refresh_token # Empty

TokenInvalidErrors == {"Invalid or expired Firebase token", "Invalid Firebase token"}

\* The record a migrate-password request is about, in the store it arrived at.
RecordOf(r) == StoreUserByEmail(r.before, r.email)

HasSourceHash(u) ==
  u.user_metadata.passwordHash # Empty /\ u.user_metadata.passwordSalt # None

CorrectPlaintext(u, password) ==
  FirebaseScrypt(password, u.user_metadata.passwordSalt) = u.user_metadata.passwordHash

\* The response of a wrong password on the migration path.
CredentialMismatch == [NoResp EXCEPT !.status = 401, !.error = "Invalid credentials"]

----------------------------------------------------------------------------
(* C1: an exchange-session request whose token the claims-verification     *)
(* service rejects (expired, revoked or malformed) ends with status 401    *)
(* and the invalid-token error right after that one call: no user-store   *)
(* call, no artifact, no tokens, no change of the store, whatever claims   *)
(* the token carries.                                                      *)
TokenRejected(r) ==
  /\ IsExchange(r)
  /\ r.token.state \in {"expired", "revoked", "malformed"}
  /\ HasCall(r, "verifyToken", "ok")

C1_RejectedTokenEndsInTokenInvalid ==
  TokenRejected(req) =>
    /\ IsDone(req)
    /\ req.resp.status = 401
    /\ req.resp.error \in TokenInvalidErrors
    /\ req.calls = <<<<"verifyToken", "ok">>>>
    /\ ~GrantsSession(req.resp)
    /\ users = req.before

\* An expired token whose claims would resolve to a stored user was rejected.
C1_Witness ==
  /\ TokenRejected(req)
  /\ req.token = Token("expired", "U1", EmailALower)
  /\ req.resp.status = 401

----------------------------------------------------------------------------
(* C2: migrate-password reaches the password write (and the migrated       *)
(* session) only after the credential-verification service answered, in    *)
(* this request, with the success indicator for the supplied password and  *)
(* the hash and salt stored in the record; after any other verifier        *)
(* outcome the request is over with no password write and no session.      *)
PastVerification(r) ==
  \/ r.pc \in {"update", "login2"}
  \/ "updateUserById" \in CallNames(r)
  \/ r.resp.migrated = "true"

VerifierSaidValid(r) ==
  /\ HasCall(r, "pwVerify", "ok")
  /\ RecordOf(r) # 0
  /\ r.user.user_metadata = r.before[RecordOf(r)].user_metadata
  /\ PwVerifyService(r.user.user_metadata.passwordSalt,
                     r.user.user_metadata.passwordHash, r.password) = "valid"

C2_WriteOnlyAfterVerifierSuccess ==
  IsMigrate(req) =>
    /\ PastVerification(req) => VerifierSaidValid(req)
    /\ ("pwVerify" \in CallNames(req) /\ ~VerifierSaidValid(req)) =>
         /\ IsDone(req)
         /\ ~GrantsSession(req.resp)
         /\ "updateUserById" \notin CallNames(req)
         /\ users = req.before

\* A migration went through: verified, written, logged in.
C2_Witness ==
  /\ IsMigrate(req) /\ IsDone(req)
  /\ req.resp.migrated = "true"
  /\ users # req.before

----------------------------------------------------------------------------
(* C3: for a user with a source password hash and no native password, a    *)
(* migrate-password request with an incorrect plaintext grants no session  *)
(* and leaves the whole store as it was; when the deployment is configured *)
(* and every call of the request is answered, its response is the          *)
(* CredentialMismatch one (status 401).                                    *)
WrongPlaintextRequest(r) ==
  /\ IsMigrate(r) /\ r.pc # "idle" /\ ~MissingFields(r.email, r.password)
  /\ RecordOf(r) # 0
  /\ HasSourceHash(r.before[RecordOf(r)])
  /\ r.before[RecordOf(r)].password = None
  /\ ~CorrectPlaintext(r.before[RecordOf(r)], r.password)

C3_WrongPlaintextIsMismatch ==
  WrongPlaintextRequest(req) =>
    /\ users = req.before
    /\ ~GrantsSession(req.resp)
    /\ (IsDone(req) /\ NoFault(req) /\ Configured(req)) => req.resp = CredentialMismatch

C3_Witness ==
  /\ WrongPlaintextRequest(req) /\ IsDone(req) /\ NoFault(req)
  /\ req.resp.status = 401
  /\ HasCall(req, "pwVerify", "ok")

----------------------------------------------------------------------------
(* C4: for a user with a source password hash whose native password is    *)
(* not yet that plaintext, in a configured deployment, a migrate-password  *)
(* request with the correct plaintext, all of whose calls are answered,    *)
(* succeeds with migrated=true and leaves the record with that native      *)
(* password; an identical request served next, its login answered,         *)
(* succeeds with migrated=false after the native login alone: no listing,  *)
(* no credential verification, no write.                                   *)
CorrectPlaintextRequest(r) ==
  /\ IsMigrate(r) /\ r.pc # "idle" /\ ~MissingFields(r.email, r.password)
  /\ RecordOf(r) # 0
  /\ HasSourceHash(r.before[RecordOf(r)])
  /\ r.before[RecordOf(r)].password # r.password
  /\ CorrectPlaintext(r.before[RecordOf(r)], r.password)

RepeatsMigration(r, p) ==
  /\ IsMigrate(r) /\ IsMigrate(p) /\ SameInput(r, p)
  /\ p.resp.status = 200 /\ p.resp.migrated = "true"

C4_MigrateThenFastPath ==
  /\ (CorrectPlaintextRequest(req) /\ IsDone(req) /\ NoFault(req)
        /\ Configured(req)) =>
       /\ req.resp.status = 200
       /\ req.resp.migrated = "true"
       /\ req.resp.session.user_id = req.before[RecordOf(req)].id
       /\ users[RecordOf(req)].password = req.password
  /\ (RepeatsMigration(req, prev) /\ IsDone(req) /\ NoFault(req)) =>
       /\ req.resp.status = 200
       /\ req.resp.migrated = "false"
       /\ GrantsSession(req.resp)
       /\ req.calls = <<<<"signInWithPassword", "ok">>>>
       /\ users = req.before

\* The second of two identical requests took the fast path.
C4_Witness ==
  /\ RepeatsMigration(req, prev) /\ IsDone(req) /\ NoFault(req)
  /\ req.resp.migrated = "false"
  /\ req.resp.session # prev.resp.session

----------------------------------------------------------------------------
(* C5: when the credential-verification service is unreachable or answers  *)
(* with a non-success response, migrate-password ends with a 5xx failure   *)
(* that is not the CredentialMismatch response, and grants no session.     *)
C5_VerifierOutageIsServiceUnavailable ==
  (/\ IsMigrate(req) /\ IsDone(req)
   /\ HasCall(req, "pwVerify", "throw") \/ HasCall(req, "pwVerify", "error")) =>
    /\ req.resp.status >= 500
    /\ req.resp # CredentialMismatch
    /\ ~GrantsSession(req.resp)

----------------------------------------------------------------------------
(* C6: when the call to the claims-verification service fails by transport *)
(* error or is answered with a 5xx, exchange-session ends with status 500, *)
(* not with the invalid-token response, and makes no further call.         *)
C6_ClaimsVerifierOutageIsServiceUnavailable ==
  (/\ IsExchange(req)
   /\ HasCall(req, "verifyToken", "throw") \/ HasCall(req, "verifyToken", "error")) =>
    /\ IsDone(req)
    /\ req.resp.status = 500
    /\ req.resp.error \notin TokenInvalidErrors
    /\ Len(req.calls) = 1

----------------------------------------------------------------------------
(* C7: if the sign-in artifact cannot be issued or cannot be redeemed,     *)
(* exchange-session answers 500; it answers 200 only with both an access   *)
(* token and a refresh token in the body.                                  *)
IssueFailed(r) ==
  \/ HasCall(r, "generateLink", "error") \/ HasCall(r, "generateLink", "throw")
  \/ HasCall(r, "verifyOtp", "error") \/ HasCall(r, "verifyOtp", "throw")

C7_SessionIssueErrorIs500 ==
  (IsExchange(req) /\ IsDone(req)) =>
    /\ IssueFailed(req) => req.resp.status = 500
    /\ req.resp.status = 200 =>
         req.resp.access_token # Empty /\ req.resp.refresh_token # Empty

----------------------------------------------------------------------------
(* C8: for a valid token whose claims resolve to a stored record, a        *)
(* session returned by exchange-session is for that record's id; when the  *)
(* deployment is configured and every call is answered the request returns *)
(* such a session (unless the link issued carries no token the handler can *)
(* use, the issue error of C7); and a repeated call with the same token    *)
(* returns a session for the same user id with a different access token    *)
(* and a different refresh token.                                          *)
EqualIgnoringCase(a, b) == a # Empty /\ b # Empty /\ ToLowerCase(a) = ToLowerCase(b)

\* The stored records the claims of the request's token identify: by external
\* id or email in the first revision, by email in the second.
Resolving(r) ==
  {k \in DOMAIN r.before :
     \/ EqualIgnoringCase(r.before[k].email, r.token.email)
     \/ r.kind = "exchange" /\ r.before[k].user_metadata.uid = r.token.uid}

FirstOf(S) == CHOOSE k \in S : \A j \in S : k <= j

LinkUnusableErrors ==
  {"Failed to generate session tokens", "Failed to extract token from magic link"}

ResolvableExchange(r) ==
  IsExchange(r) /\ r.token.state = "valid" /\ Resolving(r) # {} /\ IsDone(r)

----------------------------------------------------------------------------
(* C9: when the native login with the supplied email and password          *)
(* succeeds, migrate-password returns that session with migrated=false and *)
(* has done nothing else: no user listing, no credential verification, no  *)
(* write to the user store.                                                *)
NativeLoginSucceeded(r) ==
  /\ IsMigrate(r) /\ r.calls # <<>>
  /\ r.calls[1] = <<"signInWithPassword", "ok">>
  /\ NativeLoginAccepts(r.before, r.email, r.password)

C9_FastPathDoesNoMigrationWork ==
  NativeLoginSucceeded(req) =>
    /\ IsDone(req)
    /\ req.resp.status = 200
    /\ req.resp.migrated = "false"
    /\ req.resp.session # NoSession
    /\ req.resp.session.user_id = req.before[RecordOf(req)].id
    /\ req.calls = <<<<"signInWithPassword", "ok">>>>
    /\ users = req.before

\* A user whose password was native from the start logged in.
C9_Witness ==
  /\ NativeLoginSucceeded(req)
  /\ req.email = EmailC
  /\ req.resp.migrated = "false"

----------------------------------------------------------------------------
(* C10: for a record with no source password hash or salt (OAuth-only),    *)
(* migrate-password never calls the credential-verification service,       *)
(* writes nothing and grants nothing; when its calls are answered, in a    *)
(* deployment with the user-store values set, it ends with status 401 and  *)
(* the OAuth hint, a response different from the CredentialMismatch one.   *)
OAuthOnlyRequest(r) ==
  /\ IsMigrate(r) /\ r.pc # "idle" /\ ~MissingFields(r.email, r.password)
  /\ RecordOf(r) # 0
  /\ ~HasSourceHash(r.before[RecordOf(r)])
  /\ ~NativeLoginAccepts(r.before, r.email, r.password)

C10_NoSourcePasswordIsDistinct ==
  OAuthOnlyRequest(req) =>
    /\ "pwVerify" \notin CallNames(req)
    /\ "updateUserById" \notin CallNames(req)
    /\ users = req.before
    /\ ~GrantsSession(req.resp)
    /\ (IsDone(req) /\ NoFault(req) /\ ~CreateClientThrows(config, "SUPABASE_ANON_KEY")
          /\ ~CreateClientThrows(config, "SUPABASE_SERVICE_ROLE_KEY")) =>
         /\ req.resp.status = 401
         /\ req.resp.hint = OAuthHint
         /\ req.resp # CredentialMismatch

C10_Witness ==
  /\ OAuthOnlyRequest(req) /\ IsDone(req) /\ NoFault(req)
  /\ req.email = EmailB
  /\ req.resp.hint = OAuthHint

----------------------------------------------------------------------------
(* C11: after a migrate-password request answered with migrated=true, the  *)
(* record of the user has the plaintext as native password and no source   *)
(* password hash any more, and is otherwise as it was when the request     *)
(* arrived; the other records are untouched.                               *)
MigrationSucceeded(r) ==
  IsMigrate(r) /\ IsDone(r) /\ r.resp.status = 200 /\ r.resp.migrated = "true"

C11_MigrationSetsPasswordAndStripsHash ==
  MigrationSucceeded(req) =>
    users = [req.before EXCEPT
               ![RecordOf(req)].password = req.password,
               ![RecordOf(req)].user_metadata.passwordHash = Empty]

----------------------------------------------------------------------------
(* C12: in every interleaving of migrate-password requests carrying the    *)
(* correct password of one not-yet-migrated user, and of exchange-session  *)
(* requests for that user, every request that ends has a session of that   *)
(* user; the record differs from the original one in nothing but the       *)
(* native password and the last-exchange timestamp; once a migration       *)
(* request has ended the native password is that password, and once an     *)
(* exchange request has ended the timestamp is set, as after a sequential  *)
(* execution of the same requests.                                         *)
AllRequests == {req} \cup BagToSet(parked)

SessionOf(resp) == IF resp.session # NoSession THEN resp.session.user_id ELSE resp.user_id

----------------------------------------------------------------------------
(* C13: when the password write of a migration fails (error result or      *)
(* thrown exception), the request ends there with status 500: no session,  *)
(* no login after the write, the store as it was; and an identical request *)
(* served next for the still unmigrated password, all of its calls         *)
(* answered, migrates again and ends with migrated=true and the native     *)
(* password set.                                                           *)
WriteFailed(r) ==
  /\ IsMigrate(r)
  /\ HasCall(r, "updateUserById", "error") \/ HasCall(r, "updateUserById", "throw")

RetriesFailedWrite(r, p) ==
  /\ IsMigrate(r) /\ IsMigrate(p) /\ SameInput(r, p)
  /\ p.resp.status = 500 /\ p.resp.error = "Failed to migrate password"
  /\ ~NativeLoginAccepts(r.before, r.email, r.password)

C13_FailedWriteIsRetriedCleanly ==
  /\ WriteFailed(req) =>
       /\ IsDone(req)
       /\ req.resp.status = 500
       /\ ~GrantsSession(req.resp)
       /\ req.calls[Len(req.calls)][1] = "updateUserById"
       /\ users = req.before
  /\ (RetriesFailedWrite(req, prev) /\ IsDone(req) /\ NoFault(req)) =>
       /\ req.resp.status = 200
       /\ req.resp.migrated = "true"
       /\ GrantsSession(req.resp)
       /\ HasCall(req, "pwVerify", "ok") /\ HasCall(req, "updateUserById", "ok")
       /\ users[RecordOf(req)].password = req.password

\* The retry of a migration whose write had failed went through.
C13_Witness ==
  /\ RetriesFailedWrite(req, prev) /\ IsDone(req) /\ NoFault(req)
  /\ req.resp.migrated = "true"
  /\ users # req.before

----------------------------------------------------------------------------
(* C14: an exchange-session request whose verified claims match no stored  *)
(* record, neither by subject id nor by email, ends, when the deployment   *)
(* is configured and its calls are answered, with status 404 and the       *)
(* user-not-found error, with no session and no change of the store.       *)
NoStoredMatch(r) ==
  \A k \in DOMAIN r.before :
    /\ r.before[k].user_metadata.uid # r.token.uid
    /\ ~EqualIgnoringCase(r.before[k].email, r.token.email)

UnmatchedClaims(r) ==
  /\ IsExchange(r) /\ r.token.state = "valid"
  /\ HasCall(r, "verifyToken", "ok")
  /\ NoStoredMatch(r)

C14_UnmatchedClaimsAreUserNotFound ==
  (UnmatchedClaims(req) /\ IsDone(req) /\ NoFault(req) /\ config = ConfigKeys) =>
    /\ req.resp.status = 404
    /\ req.resp.error = "User not found"
    /\ ~GrantsSession(req.resp)
    /\ users = req.before

----------------------------------------------------------------------------
(* C15: in every lookup of the gateway an email that equals a stored       *)
(* record's email up to letter case finds that record: the lookup of       *)
(* exchange-session by the claims email (no other record carrying the      *)
(* claims' subject id) and the lookup of migrate-password by the request   *)
(* email both end with that record and never with user-not-found.          *)
SameEmailRecords(r, email) ==
  {k \in DOMAIN r.before : EqualIgnoringCase(r.before[k].email, email)}

SubjectElsewhere(r) ==
  \E k \in DOMAIN r.before :
    /\ r.before[k].user_metadata.uid = r.token.uid
    /\ k \notin SameEmailRecords(r, r.token.email)

LookedUp(r) == HasCall(r, "listUsers", "ok")

----------------------------------------------------------------------------
(* C16: when the tokens have been read from the link and the write of the  *)
(* last-session-exchange timestamp fails, by error result or by thrown     *)
(* exception, exchange-session still answers 200 with those tokens and the *)
(* user found, with no error in the body; the store is left unchanged.     *)
TrackingFailed(r) ==
  /\ r.kind = "exchange"
  /\ HasCall(r, "generateLink", "ok")
  /\ HasCall(r, "updateUserById", "error") \/ HasCall(r, "updateUserById", "throw")

C16_TrackingFailureIsNotPropagated ==
  TrackingFailed(req) =>
    /\ IsDone(req)
    /\ req.resp.status = 200
    /\ req.resp.error = None
    /\ req.resp.access_token = MintSession(req.user, issued).access_token
    /\ req.resp.refresh_token = MintSession(req.user, issued).refresh_token
    /\ req.resp.user_id = req.user.id
    /\ users = req.before

\* The tracking write threw and the session was returned all the same.
C16_Witness ==
  /\ TrackingFailed(req)
  /\ HasCall(req, "updateUserById", "throw")
  /\ req.resp.status = 200
  /\ GrantsSession(req.resp)

----------------------------------------------------------------------------
(* C17: in a deployment that lacks a configuration value an endpoint       *)
(* requires, no request to that endpoint is granted a session and every    *)
(* one of them ends with a 500 failure, whatever it carries and whatever   *)
(* the store contains.                                                     *)
C17_MissingConfigurationFailsClosed ==
  Misconfigured(req) =>
    /\ ~GrantsSession(req.resp)
    /\ IsDone(req) => req.resp.status = 500

----------------------------------------------------------------------------
(* C18: when the listing of the user store fails during migrate-password,  *)
(* by error result or by thrown exception, the request ends with status    *)
(* 500.                                                                    *)
ListingFailed(r) ==
  /\ IsMigrate(r)
  /\ HasCall(r, "listUsers", "error") \/ HasCall(r, "listUsers", "throw")

C18_ListFailureIsDownstreamFailure ==
  ListingFailed(req) =>
    /\ IsDone(req)
    /\ req.resp.status = 500

----------------------------------------------------------------------------
(* C19: a request that lacks a required body field (the token of           *)
(* exchange-session, the email or the password of migrate-password) ends   *)
(* at once with status 400: no external call was made, no session is       *)
(* granted and the store is unchanged.                                     *)
LacksField(r) ==
  \/ IsExchange(r) /\ r.token = NoToken
  \/ IsMigrate(r) /\ (r.email = Empty \/ r.password = None)

C19_MissingFieldIs400 ==
  LacksField(req) =>
    /\ IsDone(req)
    /\ req.resp.status = 400
    /\ req.calls = <<>>
    /\ ~GrantsSession(req.resp)
    /\ users = req.before

\* A migrate-password request without a password, for a user that exists.
C19_Witness ==
  /\ LacksField(req)
  /\ IsMigrate(req) /\ req.email = EmailA /\ req.password = None
  /\ req.resp.status = 400

----------------------------------------------------------------------------
(* C20: at no point of an exchange-session execution does the function log *)
(* hold the one-time sign-in artifact (the action link with its token or   *)
(* token hash) of an account while the store would still redeem it.        *)
CarriesToken(line) == line[1] = "action_link" /\ line[3] \in {"token_hash", "token"}

StillRedeemable(line) ==
  LET i == StoreUserByEmail(users, line[2])
  IN i # 0 /\ users[i].id \in artifacts

C20_ArtifactNeverLoggedRedeemable ==
  IsExchange(req) =>
    \A line \in req.log : ~(CarriesToken(line) /\ StillRedeemable(line))

----------------------------------------------------------------------------
(* C21: no line of the function log and no error response holds raw secret *)
(* material; of the secrets the handlers hold, the log could only receive  *)
(* a stored source password hash or salt, through a logged record.         *)
HoldsSourceHash(line) ==
  /\ line[1] = "user_metadata"
  /\ line[3].passwordHash # Empty \/ line[3].passwordSalt # None

C21_NoSecretInLogOrError ==
  \A line \in req.log : ~HoldsSourceHash(line)

----------------------------------------------------------------------------
(* C22: the token-verification service answers 200, with the claims of the *)
(* token, only to a token that passes verification with the revocation     *)
(* check; it answers 401 to an expired and to a revoked token, 400 to a    *)
(* structurally invalid one, and 400 to a request without token, for which *)
(* the verifier is not invoked.                                            *)
ServiceAnswered(r) == r.kind = "verify-token" /\ IsDone(r)

C22_TokenServiceStatuses ==
  ServiceAnswered(req) =>
    /\ req.resp.status = 200 =>
         /\ req.token.state = "valid"
         /\ req.calls = <<<<"verifyIdToken", "ok">>>>
         /\ req.fbUser = [uid |-> req.token.uid, email |-> req.token.email]
    /\ req.token.state = "valid" => req.resp.status = 200
    /\ req.token.state \in {"expired", "revoked"} =>
         req.resp.status = 401 /\ req.fbUser = NoClaims
    /\ req.token.state = "malformed" => req.resp.status = 400 /\ req.fbUser = NoClaims
    /\ req.token = NoToken => req.resp.status = 400 /\ req.calls = <<>>
    /\ VerifyTokenService(req.token).status = req.resp.status
    /\ VerifyTokenService(req.token).claims = req.fbUser

\* A revoked token that carries the claims of a stored user was rejected.
C22_Witness ==
  /\ ServiceAnswered(req)
  /\ req.token = Token("revoked", "U1", EmailALower)
  /\ req.resp.status = 401
  /\ req.calls = <<<<"verifyIdToken", "throw">>>>

----------------------------------------------------------------------------
(* C23: a record that has a native password when a migrate-password        *)
(* request arrives keeps that password whatever the request does, also     *)
(* when the record still carries a source hash that the supplied password  *)
(* matches.                                                                *)
C23_NativePasswordNeverOverwritten ==
  IsMigrate(req) =>
    \A k \in DOMAIN req.before :
      req.before[k].password # None => users[k].password = req.before[k].password

----------------------------------------------------------------------------
(* C24: migrate-password attempts the post-migration login only after the  *)
(* store answered the password write without error, the password then      *)
(* being the native one; a response with migrated=true is the response to  *)
(* that login succeeding and carries the session that login produced, and  *)
(* a post-migration login that succeeds is answered so.                    *)
SecondLoginAt(r, k) ==
  /\ k \in DOMAIN r.calls
  /\ r.calls[k][1] = "signInWithPassword"
  /\ \E j \in 1..(k - 1) : r.calls[j][1] = "signInWithPassword"

WriteAcknowledgedBefore(r, k) ==
  /\ k > 1
  /\ r.calls[k - 1] = <<"updateUserById", "ok">>
  /\ users[StoreUserByEmail(users, r.email)].password = r.password

C24_LoginOnlyAfterAcknowledgedWrite ==
  IsMigrate(req) =>
    /\ req.pc = "login2" => WriteAcknowledgedBefore(req, Len(req.calls) + 1)
    /\ \A k \in DOMAIN req.calls :
         SecondLoginAt(req, k) => WriteAcknowledgedBefore(req, k)
    /\ IsDone(req) /\ req.resp.migrated = "true" =>
         /\ SecondLoginAt(req, Len(req.calls))
         /\ req.calls[Len(req.calls)] = <<"signInWithPassword", "ok">>
         /\ req.resp.status = 200
         /\ req.resp.session = MintSession(req.user, issued)
    /\ IsDone(req) /\ SecondLoginAt(req, Len(req.calls))
         /\ req.calls[Len(req.calls)][2] = "ok" =>
         req.resp.migrated = "true" /\ req.resp.session # NoSession

\* The write was acknowledged, the login after it succeeded, and the
\* response carries its session.
C24_Witness ==
  /\ IsMigrate(req) /\ IsDone(req)
  /\ Len(req.calls) = 5
  /\ req.calls[Len(req.calls) - 1] = <<"updateUserById", "ok">>
  /\ req.calls[Len(req.calls)] = <<"signInWithPassword", "ok">>
  /\ req.resp.migrated = "true"
  /\ req.resp.session = MintSession(req.user, issued)

----------------------------------------------------------------------------
(* The match policy the lookups are measured against.                      *)

\* The record's email is the claims' email up to letter case.
EmailMatches(u, c) ==
  c.email # Empty /\ ToLowerCase(u.email) = ToLowerCase(c.email)

\* The record embeds an external id and it is the claims' subject id.
ExternalIdMatches(u, c) ==
  u.user_metadata.uid # None /\ c.uid # None /\ u.user_metadata.uid = c.uid

RecordMatches(u, c) == EmailMatches(u, c) \/ ExternalIdMatches(u, c)

MatchingIn(list, c) == {k \in DOMAIN list : RecordMatches(list[k], c)}

ExchangeLookupDone(r) ==
  r.kind \in {"lookup-exchange", "lookup-exchange2"} /\ IsDone(r)

\* The records the lookup of the request went through.
Examined(r) ==
  IF r.kind = "lookup-exchange2"
    THEN SubSeq(users, 1, Min(Len(r.calls) * PerPage, Len(users)))
    ELSE ListUsersDefault(users)

(* C25: in the identity resolution of exchange-session a record matches    *)
(* claims that carry a subject id exactly when its email is the claims'    *)
(* email up to case or its embedded external id is the subject id: the     *)
(* record resolved satisfies one of the two, and a record is resolved      *)
(* whenever a record examined satisfies one of the two.                    *)
C25_MatchIsEmailOrExternalId ==
  ExchangeLookupDone(req) /\ req.fbUser.uid # None =>
    /\ req.user # NoUser => RecordMatches(req.user, req.fbUser)
    /\ MatchingIn(Examined(req), req.fbUser) # {} => req.user # NoUser

(* C26: when several of the records listed match the claims, one by email  *)
(* and another by external id, the first revision of exchange-session      *)
(* resolves the one that comes first in the listing, whichever of the two  *)
(* conditions it matched by.                                               *)
C26_FirstMatchInStoreOrder ==
  req.kind = "lookup-exchange" /\ IsDone(req) =>
    LET list == ListUsersDefault(users)
        matching == MatchingIn(list, req.fbUser)
    IN Cardinality(matching) >= 2 =>
         \E k \in matching :
           /\ req.user = list[k]
           /\ \A j \in matching : k <= j

\* b@x matches by external id and comes before c@x, which matches by email.
C26_Witness ==
  /\ req.kind = "lookup-exchange" /\ IsDone(req)
  /\ req.fbUser = [uid |-> "U2", email |-> EmailC]
  /\ Len(users) = 3
  /\ EmailMatches(users[3], req.fbUser) /\ ExternalIdMatches(users[2], req.fbUser)
  /\ req.user = users[2]

(* C27: the first revision of exchange-session resolves a record that      *)
(* embeds no external id only when the record's email is the claims' email *)
(* up to case, also for claims that carry no subject id.                   *)
C27_NoExternalIdMatchesByEmailOnly ==
  req.kind = "lookup-exchange" /\ IsDone(req) =>
    (req.user # NoUser /\ req.user.user_metadata.uid = None
       => EmailMatches(req.user, req.fbUser))

(* C28: whenever one of the first MaxPages * PerPage records of the store  *)
(* satisfies the match condition of the lookup (email or external id for   *)
(* exchange-session, email for migrate-password), the lookup resolves a    *)
(* record, on whichever page of the listing the record lies.               *)
WithinBound(us) == SubSeq(us, 1, Min(Len(us), MaxPages * PerPage))

C28_EveryPageIsExamined ==
  /\ ExchangeLookupDone(req) =>
       (MatchingIn(WithinBound(users), req.fbUser) # {} => req.user # NoUser)
  /\ req.kind = "lookup-migrate" /\ IsDone(req) =>
       ((\E k \in DOMAIN WithinBound(users) :
           EmailMatches(users[k], req.fbUser)) => req.user # NoUser)

(* C29: findUserByEmail ends after at most MaxPages list calls of PerPage  *)
(* records each: it goes on to the next page only after a full page with   *)
(* no record of the email, it stops at the first page that holds such a    *)
(* record or is shorter than PerPage, or after page MaxPages, and it       *)
(* returns null exactly when none of the records of the pages it listed    *)
(* has the email, the first such record otherwise.                         *)
HoldsEmail(list, email) ==
  \E k \in DOMAIN list : ToLowerCase(list[k].email) = ToLowerCase(email)

PageOf(n) == ListUsers(users, n, PerPage)

FullWithoutMatch(n, email) ==
  Len(PageOf(n)) = PerPage /\ ~HoldsEmail(PageOf(n), email)

C29_FindUserByEmailIsBounded ==
  req.kind = "lookup-exchange2" =>
    LET n == Len(req.calls)
    IN /\ n <= MaxPages
       /\ \A k \in 1..n : req.calls[k] = <<"listUsers", "ok">>
       /\ req.pc = "findUserByEmail" =>
            n < MaxPages /\ \A k \in 1..n : FullWithoutMatch(k, req.email)
       /\ IsDone(req) =>
            /\ n >= 1
            /\ \A k \in 1..(n - 1) : FullWithoutMatch(k, req.email)
            /\ \/ HoldsEmail(PageOf(n), req.email)
               \/ Len(PageOf(n)) < PerPage
               \/ n = MaxPages
            /\ req.user = NoUser <=> ~HoldsEmail(Examined(req), req.email)
            /\ req.user = Found(users, FindUserByEmail(users, req.email))
            /\ req.user # NoUser =>
                 req.user = users[Find({k \in DOMAIN users :
                              ToLowerCase(users[k].email) = ToLowerCase(req.email)})]

\* Ten full pages were listed without a record of the email, and null is
\* returned although the record after them has it.
C29_Witness ==
  /\ req.kind = "lookup-exchange2" /\ IsDone(req)
  /\ Len(req.calls) = MaxPages
  /\ Len(users) = MaxPages * PerPage + 1
  /\ req.email = EmailC
  /\ users[Len(users)].email = EmailC
  /\ req.user = NoUser

----------------------------------------------------------------------------
(* C30: every response of exchange-session that carries tokens was built   *)
(* by redeeming, in the same request, the sign-in artifact the request had *)
(* issued before for the email of the user it resolved: the artifact was   *)
(* issued, then redeemed, once, and the tokens are those of the            *)
(* redemption.                                                             *)
CallsNamed(r, name) == {k \in DOMAIN r.calls : r.calls[k][1] = name}

C30_TokensComeFromRedemption ==
  IsExchange(req) /\ IsDone(req) /\ GrantsSession(req.resp) =>
    /\ Cardinality(CallsNamed(req, "generateLink")) = 1
    /\ Cardinality(CallsNamed(req, "verifyOtp")) = 1
    /\ \E i \in CallsNamed(req, "generateLink"), j \in CallsNamed(req, "verifyOtp") :
         /\ i < j
         /\ req.calls[i][2] = "ok" /\ req.calls[j][2] = "ok"
    /\ req.resp.user_id = req.user.id
    /\ req.user.id \notin artifacts

----------------------------------------------------------------------------
(* C31: an exchange-session request writes the last-session-exchange       *)
(* timestamp exactly when it issues a session: a request that ends with    *)
(* tokens has attempted the write, and a request that ends without tokens  *)
(* has not.                                                                *)
C31_TimestampIffSession ==
  IsExchange(req) /\ IsDone(req) =>
    (GrantsSession(req.resp) <=> CallsNamed(req, "updateUserById") # {})

----------------------------------------------------------------------------
(* C32: under every interleaving of migrate-password and exchange-session  *)
(* requests the store keeps its records, each with its id and its email,   *)
(* and the imported snapshot of every record (external id, provider) keeps *)
(* its value: a record differs from the imported one in nothing but the    *)
(* native password, the last-session-exchange timestamp and the source     *)
(* password hash.                                                          *)
C32_OnlyPasswordTimestampAndHashChange ==
  /\ Len(users) = Len(ConcurrentStore)
  /\ \A k \in DOMAIN users :
       users[k] =
         [ConcurrentStore[k] EXCEPT
            !.password = users[k].password,
            !.user_metadata.last_firebase_session_exchange =
               users[k].user_metadata.last_firebase_session_exchange,
            !.user_metadata.passwordHash = users[k].user_metadata.passwordHash]

\* An exchange that listed the record before the migration wrote the
\* password has tracked, with the metadata it had listed, after it.
C32_Witness ==
  /\ \E x \in AllRequests :
       /\ x.kind = "exchange" /\ IsDone(x)
       /\ x.user.id = ConcurrentStore[1].id
       /\ x.user.password = None
       /\ HasCall(x, "updateUserById", "ok")
  /\ \E m \in AllRequests : IsMigrate(m) /\ HasCall(m, "updateUserById", "ok")
  /\ users[1].password = ConcurrentPassword
  /\ users[1].user_metadata.last_firebase_session_exchange = "ts"
  /\ users[1].user_metadata.uid = "U1"

----------------------------------------------------------------------------
(* C33: for every combination of native password, source password hash,   *)
(* exchange timestamp and provider, the migration state a report gives for *)
(* a record is the state of the derivation rule: fully migrated with a     *)
(* native password; without one and with a source hash, session-exchanged  *)
(* only if the timestamp is present and not migrated otherwise; OAuth user *)
(* for another provider; and so the two reports give the same state.       *)
StateOfLabel(label) ==
  CASE label \in {"FULLY MIGRATED (Ready for cleanup)", "FULLY MIGRATED (Cleaned)",
                  "Fully Migrated"} -> "fully-migrated"
    [] label \in {"SESSION EXCHANGED ONLY (Not fully migrated)",
                  "Session Exchange Only"} -> "session-exchanged-only"
    [] label \in {"NOT MIGRATED (Waiting for first sign-in)", "Not Migrated"} ->
         "not-migrated"
    [] label \in {"OAUTH USER (No password to migrate)", "OAuth User"} -> "oauth"
    [] OTHER -> "unknown"

DerivedState(row) ==
  CASE row.encrypted_password # None -> "fully-migrated"
    [] RowHasPasswordHash(row) /\ row.last_firebase_session_exchange # None ->
         "session-exchanged-only"
    [] RowHasPasswordHash(row) -> "not-migrated"
    [] RowProviderNotEmail(row) -> "oauth"
    [] OTHER -> "unknown"

C33_ReportsAgreeWithDerivation ==
  req.kind \in {"sql", "monitor"} /\ req.state # None =>
    /\ StateOfLabel(req.state) = DerivedState(users[1])
    /\ StateOfLabel(SqlMigrationState(users[1]))
         = StateOfLabel(MonitorMigrationState(users[1]))

----------------------------------------------------------------------------
(* C34: every request to exchange-session or migrate-password ends, with   *)
(* one response whose status is 200, 400, 401, 404 or 500, however its     *)
(* external calls fail (error result or thrown exception): a request being *)
(* served is eventually answered, an answered request takes no further     *)
(* step, and the status of every answer is one of the five.                *)
ResponseStatuses == {200, 400, 401, 404, 500}

BeingServed(r) == r.pc \notin {"idle", "done"}

AnsweredOnce == IsDone(req) => req' = req \/ req'.calls = <<>>

C34_EveryRequestEndsWithOneResponse ==
  /\ [](IsDone(req) => req.resp.status \in ResponseStatuses)
  /\ [](BeingServed(req) => req.resp = NoResp)
  /\ [][AnsweredOnce]_vars
  /\ (BeingServed(req) ~> IsDone(req))

\* A request all of whose awaited calls threw or failed has been answered 500.
C34_Witness ==
  /\ IsExchange(req) /\ IsDone(req)
  /\ Len(req.calls) = 3
  /\ req.calls[3][2] = "throw"
  /\ req.resp.status = 500

----------------------------------------------------------------------------
(* The helpers on the device: vocabulary.                                  *)

Ran(kind) == req.kind = kind /\ req.pc = "done"

NothingThrew(r) == \A k \in DOMAIN r.calls : r.calls[k][2] # "throw"

(* C35: signInWithPassword calls the migration endpoint only after the     *)
(* direct login returned an error and no session; it returns a session,    *)
(* and sets the migration-complete flag, only when the direct login or the *)
(* endpoint produced a session; and it reports migrated=true only with a   *)
(* session that came from the endpoint.                                    *)
C35_EndpointOnlyAfterFailedLogin ==
  Ran("signInWithPassword") =>
    /\ CallsNamed(req, "migrate-endpoint") # {} =>
         /\ req.calls[1] = <<"signInWithPassword", "error">>
         /\ CallsNamed(req, "migrate-endpoint") = {2}
    /\ req.result.session # None =>
         \/ req.result.session = "native" /\ req.calls[1] = <<"signInWithPassword", "session">>
         \/ req.result.session = "endpoint" /\ HasCall(req, "migrate-endpoint", "ok")
    /\ client.migration_complete = "true" /\ req.before.migration_complete # "true" =>
         req.result.session # None
    /\ req.result.migrated =>
         req.result.session = "endpoint" /\ HasCall(req, "migrate-endpoint", "ok")

\* The direct login failed, the endpoint answered with a session, and the
\* helper reports the migration.
C35_Witness ==
  /\ Ran("signInWithPassword")
  /\ req.calls = <<<<"signInWithPassword", "error">>, <<"migrate-endpoint", "ok">>,
                   <<"setSession", "ok">>, <<"setItem", "ok">>>>
  /\ req.result.migrated /\ req.result.session = "endpoint"
  /\ client.session = "endpoint" /\ client.migration_complete = "true"

----------------------------------------------------------------------------
----------------------------------------------------------------------------
(* C37: whenever exchangeFirebaseSession or                                *)
(* checkAndExchangeFirebaseSession returns and the stored session-exchanged *)
(* flag is 'true', the Supabase client holds a session; a run that did not *)
(* get tokens and a successful setSession reports no success.              *)
C37_FlagImpliesSession ==
  Ran("exchangeFirebaseSession") \/ Ran("checkAndExchangeFirebaseSession") =>
    /\ client.session_exchanged = "true" => client.session # None
    /\ req.result.success \/ req.result.exchanged =>
         HasCall(req, "exchange-endpoint", "ok") /\ HasCall(req, "setSession", "ok")

----------------------------------------------------------------------------
(* C38: after any sequence of sign-ins, sign-outs and session expiry,      *)
(* checkMigrationStatus reports hasSupabaseSession=true only if the        *)
(* Supabase client holds a session at that moment.                         *)
C38_StatusReportsHeldSession ==
  Ran("checkMigrationStatus") =>
    (req.result.hasSupabaseSession => client.session # None)

----------------------------------------------------------------------------
(* C39: once checkInitialAuthState of the App has finished, the screen is  *)
(* no longer 'checking': whatever checkAndExchangeFirebaseSession returned *)
(* (a session, the need to sign in, an error), authMode is 'signedIn' or   *)
(* 'needsSignIn'.                                                          *)
C39_InitialCheckLeavesChecking ==
  Ran("checkAndExchangeFirebaseSession") =>
    client.authMode \in {"signedIn", "needsSignIn"}

----------------------------------------------------------------------------
(* C40: a step of the incremental import leaves every existing record as   *)
(* it is (a native password set by migration included) and inserts at most *)
(* one record, of a source user created at or after the cutoff whose email *)
(* no record has; no two records ever share an email; and when no call of  *)
(* the first run failed, a run with the same cutoff after it inserts       *)
(* nothing: the store stays as the first run left it, up to the passwords  *)
(* the gateway has migrated since.                                         *)

\* The script handles the next user of its page.
ImportStep ==
  /\ req.kind = "incremental_import" /\ req.pc = "users" /\ req.batch # <<>>
  /\ req'.batch = Tail(req.batch)

\* The store the first run left, with the passwords migrated since.
StoreAfterFirstRun ==
  [k \in DOMAIN req.afterFirst |->
     IF k \in req.migrated
       THEN [req.afterFirst[k] EXCEPT !.password = users[k].password]
       ELSE req.afterFirst[k]]

RerunOfCleanRun == req.kind = "incremental_import" /\ req.run >= 2 /\ req.clean

ImportStepKeepsStore ==
  ImportStep =>
    LET user == Head(req.batch)
    IN /\ SubSeq(users', 1, Len(users)) = users
       /\ Len(users') <= Len(users) + 1
       /\ Len(users') > Len(users) =>
            /\ user.creationTime >= req.sinceTimestamp
            /\ \A k \in DOMAIN users : users[k].email # user.email
            /\ users'[Len(users')].email = user.email
            /\ users'[Len(users')].user_metadata.uid = user.uid
            /\ users'[Len(users')].password = None
       /\ RerunOfCleanRun => users' = users

C40_RerunLeavesStoreUnchanged ==
  /\ [][ImportStepKeepsStore]_vars
  /\ [](\A j, k \in DOMAIN users : j # k => users[j].email # users[k].email)
  /\ [](RerunOfCleanRun => users = StoreAfterFirstRun)

\* The second run has finished after a first run without failure: the first
\* run had inserted the new password user, the gateway then migrated that
\* user's password, and the second run has tried its inserts again.
C40_Witness ==
  /\ RerunOfCleanRun /\ req.pc = "done" /\ req.run = 2
  /\ req.importedCount > 0
  /\ Len(users) > 3
  /\ \E k \in DOMAIN users :
       /\ users[k].email = <<"o", "'", "@", "x">> /\ users[k].password = "p1"
       /\ k \in req.migrated
  /\ users = StoreAfterFirstRun

====
